---- MODULE Spec2Model ----
(***************************************************************************)
(* TacticalScout frontend core: the API response mapper                    *)
(* (Frontend/src/api/scouting.ts), the confidence estimator and the        *)
(* insight generator (Frontend/src/lib/insight.ts), the chat intents       *)
(* (lib/chatIntents), the dashboard page (Frontend/src/pages/Index.tsx)    *)
(* and the chat box (Frontend/src/components/AIChatBox.tsx).               *)
(*                                                                         *)
(* Conventions of the model                                                *)
(*  - An optional / nullable JavaScript value is a set: Absent == {} for   *)
(*    undefined or null, Some(v) == {v} for a present value.               *)
(*  - A JavaScript number that may carry a fraction (scores, win rates,    *)
(*    minutes) is an integer count of 1/Scale units, Scale a power of two, *)
(*    so every modelled value is exactly representable as an IEEE double   *)
(*    and Math.floor / Math.round are computed exactly as the code does.   *)
(*    Counts (matches_analyzed, games, wins) are plain integers.           *)
(*  - A JavaScript object map or array is a sequence in iteration order.   *)
(*  - A payload is whatever the declared response type admits: counts are  *)
(*    non-negative, but no relation between fields (wins <= games) and no  *)
(*    scale of a score is assumed, since the mapper assumes none.          *)
(***************************************************************************)
EXTENDS Integers, Sequences, FiniteSets, TLC

VARIABLES
    \* the mapper and the derived values of a render
    data, teamName, now, report, threw, confidence, pc,
    \* a second mapping of the same payload, the insight, a chat question,
    \* its intent, the predefined response and the number of calls made
    again, insight, question, intent, response, calls,
    \* the state of the dashboard page, Index.tsx:18-23
    selectedOpponent, scoutingReport, isLoading, error,
    draftAnalysis, draftAnalysisLoading,
    \* the state of the chat box, AIChatBox.tsx:22-33
    messages, input, isTyping, nextId,
    \* the HTTP requests in flight and the number issued so far
    requests, issued

mapVars == <<data, teamName, now, report, threw, confidence, pc>>
textVars == <<again, insight, question, intent, response, calls>>
pageVars == <<selectedOpponent, scoutingReport, isLoading, error,
              draftAnalysis, draftAnalysisLoading>>
chatVars == <<messages, input, isTyping, nextId>>
netVars == <<requests, issued>>
vars == <<mapVars, textVars, pageVars, chatVars, netVars>>

(***************************************************************************)
(* Optional values                                                         *)
(***************************************************************************)
Absent == {}
Some(v) == {v}
Val(o) == CHOOSE v \in o : TRUE
\* JavaScript `o ?? d`
Coalesce(o, d) == IF o = Absent THEN d ELSE Val(o)

Min(a, b) == IF a <= b THEN a ELSE b
Max(a, b) == IF a >= b THEN a ELSE b

(***************************************************************************)
(* Fixed-point numbers: x stands for x / Scale                             *)
(***************************************************************************)
Scale == 2 ^ 7
Fix(n) == n * Scale
\* Math.floor of a fixed-point value, as an integer
MathFloor(x) == x \div Scale
\* Math.round of a fixed-point value, as an integer: floor(x + 1/2)
MathRound(x) == (2 * x + Scale) \div (2 * Scale)
\* a mutation of RoundRatio: the quotient is truncated
RoundRatio_floor(p, q) == p \div q

\* Math.round(p / q) for integers p and q > 0
RoundRatio(p, q) == (2 * p + q) \div (2 * q)

(***************************************************************************)
(* getScoutingConfidence, Frontend/src/lib/insight.ts:7-26                 *)
(***************************************************************************)
ConfidenceOf(score, label, n) ==
    [score |-> score, label |-> label, matchesAnalyzed |-> n]

\* a mutation of isLimitedData: the mock flag is ignored
isLimitedData_flagIgnored(isMock, n) == n = 0

\* insight.ts:16  isMock || n === 0
isLimitedData(isMock, n) == isMock \/ n = 0

\* a mutation of confidenceForSample: n < 5 where the code has n <= 5
confidenceForSample_strict5(n) ==
    IF n <= 1 THEN ConfidenceOf(20, "low", n)
    ELSE IF n <= 2 THEN ConfidenceOf(40, "low", n)
    ELSE IF n <= 3 THEN ConfidenceOf(55, "medium", n)
    ELSE IF n <= 4 THEN ConfidenceOf(70, "medium", n)
    ELSE IF n < 5 THEN ConfidenceOf(80, "high", n)
    ELSE IF n <= 9 THEN ConfidenceOf(85, "high", n)
    ELSE ConfidenceOf(Min(98, 75 + n), "high", n)

\* insight.ts:19-25
confidenceForSample(n) ==
    IF n <= 1 THEN ConfidenceOf(20, "low", n)
    ELSE IF n <= 2 THEN ConfidenceOf(40, "low", n)
    ELSE IF n <= 3 THEN ConfidenceOf(55, "medium", n)
    ELSE IF n <= 4 THEN ConfidenceOf(70, "medium", n)
    ELSE IF n <= 5 THEN ConfidenceOf(80, "high", n)
    ELSE IF n <= 9 THEN ConfidenceOf(85, "high", n)
    ELSE ConfidenceOf(Min(98, 75 + n), "high", n)

\* insight.ts:7-26; rep is an optional report
getScoutingConfidence(rep) ==
    IF rep = Absent THEN Absent
    ELSE LET n == Coalesce(Val(rep).matchesAnalyzed, 0)
             isMock == Val(rep).limitedDataMode = Some(TRUE)
         IN Some(IF isLimitedData(isMock, n) THEN ConfidenceOf(25, "low", n)
                 ELSE confidenceForSample(n))

(***************************************************************************)
(* Characters outside ASCII are written with ASCII stand-ins               *)
(***************************************************************************)
\* U+2014, the placeholder of scouting.ts:59, 127, 130
EmDash == "--"
\* U+2013, the separator of scouting.ts:179
EnDash == "-"
\* U+2026, the truncation mark of scouting.ts:164
Ellipsis == "..."

(***************************************************************************)
(* The raw response, Frontend/src/api/scouting.ts:13-48.                   *)
(* A payload is a record with every declared field, each Absent or Some.   *)
(***************************************************************************)
EmptyTeamStrategy ==
    [early_aggression |-> Absent, objective_contest_rate |-> Absent,
     average_game_length |-> Absent, risk_volatility |-> Absent]

\* a present, non-NaN number / the NaN of an optional fractional field
Num(x) == [nan |-> FALSE, v |-> x]
NaN == [nan |-> TRUE, v |-> 0]

ROLES == <<"Top", "Jungle", "Mid", "ADC", "Support">>

\* arr[i] of a JavaScript array, i counted from 0: undefined out of range
Undefined == "undefined"
ArrayGet(arr, i) == IF i + 1 \in DOMAIN arr THEN arr[i + 1] ELSE Undefined

\* a mutation of PadStart2: no padding
PadStart2_none(str) == str

\* String.prototype.padStart(2, "0")
PadStart2(str) == IF Len(str) < 2 THEN "0" \o str ELSE str

\* scouting.ts:58-63
formatGameTime(minutes) ==
    IF minutes = Absent \/ Val(minutes).nan THEN EmDash
    ELSE LET x == Val(minutes).v
             m == MathFloor(x)
             s == MathRound((x - Fix(m)) * 60)
         IN ToString(m) \o ":" \o PadStart2(ToString(s))

\* scouting.ts:65-70; score is an optional fixed-point number
confidenceToEffectiveness(score) ==
    IF score = Absent THEN "medium"
    ELSE IF Val(score) >= Fix(70) THEN "high"
    ELSE IF Val(score) >= Fix(50) THEN "medium"
    ELSE "low"

\* scouting.ts:72-76; classification is an optional string
classificationToTrend(classification) ==
    IF classification = Some("high") THEN "up"
    ELSE IF classification = Some("low") THEN "down"
    ELSE "stable"

(***************************************************************************)
(* mapApiResponseToScoutingReport, scouting.ts:79-200, piece by piece      *)
(***************************************************************************)
\* scouting.ts:84
matchesAnalyzedOf(d) == Coalesce(d.matches_analyzed, 0)

\* a mutation of teamStrategyOf: the `?? {}` default is missing
teamStrategyOf_noDefault(d) == d.team_strategy

\* scouting.ts:85  data.team_strategy ?? {}   (an optional, never Absent)
teamStrategyOf(d) ==
    IF d.team_strategy = Absent THEN Some(EmptyTeamStrategy) ELSE d.team_strategy

\* scouting.ts:86  data.player_tendencies?.players ?? {}
playerTendenciesOf(d) ==
    IF d.player_tendencies = Absent THEN <<>>
    ELSE Coalesce(Val(d.player_tendencies).players, <<>>)

\* scouting.ts:87  data.counter_strategies?.strategies ?? []
strategiesOf(d) ==
    IF d.counter_strategies = Absent THEN <<>>
    ELSE Coalesce(Val(d.counter_strategies).strategies, <<>>)

\* scouting.ts:88  data.team_compositions?.compositions ?? []
compositionsOf(d) ==
    IF d.team_compositions = Absent THEN <<>>
    ELSE Coalesce(Val(d.team_compositions).compositions, <<>>)

\* scouting.ts:90  team?.name ?? teamName
displayNameOf(d, name) ==
    IF d.team = Absent THEN name ELSE Coalesce(Val(d.team).name, name)

\* scouting.ts:91-92  teamStrategy.average_game_length?.average_minutes
avgMinutesOf(d) ==
    LET avgLength == Val(teamStrategyOf(d)).average_game_length
    IN IF avgLength = Absent THEN Absent ELSE Val(avgLength).average_minutes

(***************************************************************************)
(* Team record and win rate, scouting.ts:94-111                            *)
(***************************************************************************)
RECURSIVE SumWins(_)
\* scouting.ts:94-97  compositions.reduce((sum, c) => sum + (c.wins ?? 0), 0)
SumWins(comps) ==
    IF comps = <<>> THEN 0
    ELSE Coalesce(Val(Head(comps)).wins, 0) + SumWins(Tail(comps))

RECURSIVE SumGames(_)
\* scouting.ts:98-101  compositions.reduce((sum, c) => sum + (c.games ?? 0), 0)
SumGames(comps) ==
    IF comps = <<>> THEN 0
    ELSE Coalesce(Val(Head(comps)).games, 0) + SumGames(Tail(comps))

totalWinsOf(d) == SumWins(compositionsOf(d))
totalGamesOf(d) == SumGames(compositionsOf(d))

\* a mutation of recordWinsOf: the half is rounded up
recordWinsOf_ceil(d) ==
    IF totalGamesOf(d) > 0 THEN totalWinsOf(d)
    ELSE (matchesAnalyzedOf(d) + 1) \div 2

\* scouting.ts:102-103
recordWinsOf(d) ==
    IF totalGamesOf(d) > 0 THEN totalWinsOf(d)
    ELSE matchesAnalyzedOf(d) \div 2

\* scouting.ts:104-105
recordLossesOf(d) ==
    IF totalGamesOf(d) > 0 THEN totalGamesOf(d) - totalWinsOf(d)
    ELSE matchesAnalyzedOf(d) - recordWinsOf(d)

\* scouting.ts:188  losses: Math.max(0, recordLosses)
reportLossesOf(d) == Max(0, recordLossesOf(d))

\* scouting.ts:106-111, a fixed-point value (the first branch is a whole number)
winRateOf(d) ==
    IF totalGamesOf(d) > 0
    THEN Fix(RoundRatio(100 * totalWinsOf(d), totalGamesOf(d)))
    ELSE IF Len(compositionsOf(d)) > 0
         THEN Coalesce(Val(compositionsOf(d)[1]).win_rate, Fix(50))
         ELSE Fix(50)

\* scouting.ts:189  winRate: Math.round(winRate)
reportWinRateOf(d) == MathRound(winRateOf(d))

(***************************************************************************)
(* Players, scouting.ts:113-133                                            *)
(***************************************************************************)
\* scouting.ts:115-117  (p.most_played_champions ?? []).slice(0, 5).map(c => c.champion)
champPoolOf(p) ==
    LET champs == Coalesce(p.most_played_champions, <<>>)
        n == Min(5, Len(champs))
    IN [i \in 1..n |-> Val(champs[i]).champion]

\* p?.classification of an optional sub-object
ClassificationOf(o) == IF o = Absent THEN Absent ELSE Val(o).classification

\* scouting.ts:118-123
tendencyOf(p) ==
    IF ClassificationOf(p.early_death_frequency) = Some("high") THEN "aggressive"
    ELSE IF ClassificationOf(p.performance_variance) = Some("low") THEN "defensive"
    ELSE "balanced"

\* scouting.ts:125  p.player_name ?? p.player_id ?? "Unknown"
playerNameOf(p) == Coalesce(p.player_name, Coalesce(p.player_id, "Unknown"))

\* a mutation of roleOf: the index is not wrapped
roleOf_noWrap(index) == ArrayGet(ROLES, index)

\* scouting.ts:126 and 172  ROLES[index % ROLES.length], index counted from 0
roleOf(index) == ArrayGet(ROLES, index % Len(ROLES))

\* scouting.ts:128  Math.round(p.matchup_winrate?.overall ?? 0)
playerWinRateOf(p) ==
    MathRound(IF p.matchup_winrate = Absent THEN 0
              ELSE Coalesce(Val(p.matchup_winrate).overall, 0))

\* scouting.ts:124-131
playerStatOf(p, index) ==
    [name |-> playerNameOf(p),
     role |-> roleOf(index),
     kda |-> EmDash,
     winRate |-> playerWinRateOf(p),
     tendency |-> tendencyOf(p),
     championPool |-> IF Len(champPoolOf(p)) > 0 THEN champPoolOf(p)
                      ELSE <<EmDash>>]

\* scouting.ts:113  Object.values(playerTendencies).map((p, index) => ...)
playersOf(d) ==
    [i \in 1..Len(playerTendenciesOf(d)) |->
        playerStatOf(Val(playerTendenciesOf(d)[i]), i - 1)]

(***************************************************************************)
(* Strengths, scouting.ts:135-158                                          *)
(***************************************************************************)
\* metric?.score != null
HasScore(metric) == metric /= Absent /\ Val(metric).score /= Absent

\* scouting.ts:138-142, 145-149, 152-156: the entry pushed for one metric
strengthOf(area, metric) ==
    [area |-> area,
     rating |-> MathRound(Val(Val(metric).score)),
     trend |-> classificationToTrend(Val(metric).classification)]

\* if (metric?.score != null) strengths.push(...)
PushStrength(list, area, metric) ==
    IF HasScore(metric) THEN Append(list, strengthOf(area, metric)) ELSE list

\* scouting.ts:135-158
strengthsOf(d) ==
    LET ts == Val(teamStrategyOf(d))
        s1 == PushStrength(<<>>, "Early Game", ts.early_aggression)
        s2 == PushStrength(s1, "Objective Control", ts.objective_contest_rate)
        s3 == PushStrength(s2, "Risk Volatility", ts.risk_volatility)
    IN IF Len(s3) = 0
       THEN <<[area |-> "Analysis", rating |-> 50, trend |-> "stable"]>>
       ELSE s3

(***************************************************************************)
(* Counter strategies, scouting.ts:160-168                                 *)
(***************************************************************************)
\* scouting.ts:162-164
titleOf(s) ==
    LET text == Coalesce(s.strategy_text, "")
    IN SubSeq(text, 1, Min(50, Len(text)))
         \o (IF Len(text) > 50 THEN Ellipsis ELSE "")

\* scouting.ts:160-168, for the strategy at index i counted from 0
counterStrategyOf(s, i) ==
    [id |-> "cs-" \o ToString(i),
     title |-> titleOf(s),
     description |-> Coalesce(s.strategy_text, ""),
     effectiveness |-> confidenceToEffectiveness(s.confidence_score),
     phase |-> "mid"]

counterStrategiesOf(d) ==
    [i \in 1..Len(strategiesOf(d)) |->
        counterStrategyOf(Val(strategiesOf(d)[i]), i - 1)]

(***************************************************************************)
(* Draft risks, scouting.ts:170-184                                        *)
(***************************************************************************)
\* a mutation of priorityOf: the cap is missing
priorityOf_uncapped(games) == 50 + games * 10

\* scouting.ts:178  Math.min(95, 50 + c.games * 10)
priorityOf(games) == Min(95, 50 + games * 10)

\* scouting.ts:179  `${p.player_name ?? "Player"} - ${c.games} games`
notesOf(p, games) ==
    Coalesce(p.player_name, "Player") \o " " \o EnDash \o " "
        \o ToString(games) \o " games"

\* a mutation of draftRiskOf: a champion of five games or more is a ban
draftRiskOf_banWhenFrequent(p, playerIndex, c) ==
    [champion |-> c.champion,
     role |-> roleOf(playerIndex),
     threat |-> IF c.games >= 5 THEN "ban" ELSE "pick",
     priority |-> priorityOf(c.games),
     notes |-> notesOf(p, c.games)]

\* scouting.ts:174-180
draftRiskOf(p, playerIndex, c) ==
    [champion |-> c.champion,
     role |-> roleOf(playerIndex),
     threat |-> "pick",
     priority |-> priorityOf(c.games),
     notes |-> notesOf(p, c.games)]

\* scouting.ts:173  (p.most_played_champions ?? []).slice(0, 2).forEach(...)
draftRisksOfPlayer(p, playerIndex) ==
    LET champs == Coalesce(p.most_played_champions, <<>>)
        n == Min(2, Len(champs))
    IN [j \in 1..n |-> draftRiskOf(p, playerIndex, Val(champs[j]))]

RECURSIVE generatedDraftRisks(_, _)
\* scouting.ts:170-182: the pushes of players 1..k, in order
generatedDraftRisks(d, k) ==
    IF k = 0 THEN <<>>
    ELSE generatedDraftRisks(d, k - 1)
           \o draftRisksOfPlayer(Val(playerTendenciesOf(d)[k]), k - 1)

\* r placed behind every entry of a sorted list that does not compare after it
InsertByPriority(sorted, r) ==
    LET ahead == {i \in 1..Len(sorted) : sorted[i].priority >= r.priority}
        k == Cardinality(ahead)
    IN SubSeq(sorted, 1, k) \o <<r>> \o SubSeq(sorted, k + 1, Len(sorted))

RECURSIVE SortByPriorityDesc(_)
\* Array.prototype.sort((a, b) => b.priority - a.priority): a stable sort
SortByPriorityDesc(list) ==
    IF list = <<>> THEN <<>>
    ELSE InsertByPriority(SortByPriorityDesc(SubSeq(list, 1, Len(list) - 1)),
                          list[Len(list)])

\* a mutation of draftRisksTopOf: the list is cut to 8 before it is sorted
draftRisksTopOf_sliceFirst(d) ==
    LET all == generatedDraftRisks(d, Len(playerTendenciesOf(d)))
    IN SortByPriorityDesc(SubSeq(all, 1, Min(8, Len(all))))

\* scouting.ts:183-184  sort, then slice(0, 8)
draftRisksTopOf(d) ==
    LET sorted == SortByPriorityDesc(
                      generatedDraftRisks(d, Len(playerTendenciesOf(d))))
    IN SubSeq(sorted, 1, Min(8, Len(sorted)))

(***************************************************************************)
(* The property reads that throw a TypeError on null or undefined          *)
(***************************************************************************)
\* a null entry among the first n entries of an array
HasNullWithin(arr, n) == \E i \in 1..Min(n, Len(arr)) : arr[i] = Absent

mapperThrows(d) ==
    \* scouting.ts:91  teamStrategy.average_game_length
    \/ teamStrategyOf(d) = Absent
    \* scouting.ts:95 and 99  c.wins, c.games of a composition
    \/ HasNullWithin(compositionsOf(d), Len(compositionsOf(d)))
    \* scouting.ts:115  p.most_played_champions of a player record
    \/ HasNullWithin(playerTendenciesOf(d), Len(playerTendenciesOf(d)))
    \* scouting.ts:117 and 175  c.champion of one of the first 5 champions
    \/ \E i \in 1..Len(playerTendenciesOf(d)) :
          /\ playerTendenciesOf(d)[i] /= Absent
          /\ HasNullWithin(
                 Coalesce(Val(playerTendenciesOf(d)[i]).most_played_champions,
                          <<>>), 5)
    \* scouting.ts:163  s.strategy_text of a strategy
    \/ HasNullWithin(strategiesOf(d), Len(strategiesOf(d)))

\* a mutation of mapApiResponseToScoutingReport: the strategy ids are numbered
\* from the clock, `cs-${Date.now() + i}`
mapApiResponseToScoutingReport_clockInIds(d, name, clock) ==
    IF mapperThrows(d) THEN Absent
    ELSE Some([teamName |-> displayNameOf(d, name),
               record |-> [wins |-> recordWinsOf(d),
                           losses |-> reportLossesOf(d)],
               winRate |-> reportWinRateOf(d),
               avgGameTime |-> formatGameTime(avgMinutesOf(d)),
               players |-> playersOf(d),
               recentMatches |-> <<>>,
               strengths |-> strengthsOf(d),
               counterStrategies |->
                  [i \in 1..Len(counterStrategiesOf(d)) |->
                     [counterStrategiesOf(d)[i]
                        EXCEPT !.id = "cs-" \o ToString(clock + i - 1)]],
               draftRisks |-> draftRisksTopOf(d),
               lastUpdated |-> clock,
               limitedDataMode |-> Some(Coalesce(d.mock_data_used, FALSE)),
               matchesAnalyzed |-> Some(matchesAnalyzedOf(d))])

(***************************************************************************)
(* scouting.ts:79-200: the mapped report, Absent when the mapper throws    *)
(***************************************************************************)
mapApiResponseToScoutingReport(d, name, clock) ==
    IF mapperThrows(d) THEN Absent
    ELSE Some([teamName |-> displayNameOf(d, name),
               record |-> [wins |-> recordWinsOf(d),
                           losses |-> reportLossesOf(d)],
               winRate |-> reportWinRateOf(d),
               avgGameTime |-> formatGameTime(avgMinutesOf(d)),
               players |-> playersOf(d),
               recentMatches |-> <<>>,
               strengths |-> strengthsOf(d),
               counterStrategies |-> counterStrategiesOf(d),
               draftRisks |-> draftRisksTopOf(d),
               lastUpdated |-> clock,
               limitedDataMode |-> Some(Coalesce(d.mock_data_used, FALSE)),
               matchesAnalyzed |-> Some(matchesAnalyzedOf(d))])

(***************************************************************************)
(* Bounds of the model                                                     *)
(***************************************************************************)
\* matches_analyzed of a payload ranges over 0..MaxAnalyzed
MaxAnalyzed == 11
\* matchesAnalyzed of a report given directly ranges over 0..MaxMatches
MaxMatches == 50
\* a payload carries at most MaxComps compositions
MaxComps == 2
\* a payload carries at most MaxStrategies counter strategies
MaxStrategies == 2
\* a roster has at most MaxPlayers players
MaxPlayers == 6
\* games of a most-played champion range over 0..MaxChampGames
MaxChampGames == 10

SeqsUpTo(S, n) == UNION {[1..k -> S] : k \in 0..n}
Opt(S) == {Absent} \cup {Some(v) : v \in S}

(***************************************************************************)
(* The payloads the backend may answer with.  Every section ranges over    *)
(* its values, absent and null included, inside each of two backgrounds:   *)
(* the payload with nothing else in it and a payload with every section.   *)
(***************************************************************************)
RequestedNames == {"Cloud9", "G2"}

TeamValues ==
    {Absent, Some([name |-> Absent]), Some([name |-> Some("")]),
     Some([name |-> Some("Team Liquid")])}

\* fixed-point scores: 0, 49.5, 100 and 150
ScoreValues == {Fix(0), Fix(49) + Scale \div 2, Fix(100), Fix(150)}
ClassValues == Opt({"high", "low", "medium"})

MetricValues ==
    {Absent} \cup {Some([score |-> s, classification |-> c]) :
                      s \in Opt(ScoreValues), c \in ClassValues}
TypicalMetric == Some([score |-> Some(Fix(62)), classification |-> Some("high")])
FewMetrics == {Absent, TypicalMetric}

\* every fraction of a minute, in 1/Scale steps, of a few whole minutes
MinuteValues == {Fix(m) + f : m \in {0, 9, 32, 100}, f \in 0..(Scale - 1)}
AvgLengthValues ==
    {Absent, Some([average_minutes |-> Absent]),
     Some([average_minutes |-> Some(NaN)])}
      \cup {Some([average_minutes |-> Some(Num(x))]) : x \in MinuteValues}
TypicalAvgLength == Some([average_minutes |-> Some(Num(Fix(32) + Scale \div 4))])

TeamStrategy(ea, oc, rv, agl) ==
    Some([early_aggression |-> ea, objective_contest_rate |-> oc,
          risk_volatility |-> rv, average_game_length |-> agl])

TeamStrategyValues ==
    {Absent}
      \cup {TeamStrategy(a, b, c, Absent) :
              a \in MetricValues, b \in FewMetrics, c \in FewMetrics}
      \cup {TeamStrategy(b, a, c, Absent) :
              a \in MetricValues, b \in FewMetrics, c \in FewMetrics}
      \cup {TeamStrategy(b, c, a, Absent) :
              a \in MetricValues, b \in FewMetrics, c \in FewMetrics}
      \cup {TeamStrategy(TypicalMetric, Absent, Absent, g) : g \in AvgLengthValues}

Composition(g, w, r) == Some([games |-> g, wins |-> w, win_rate |-> r])
\* a null entry and entries with and without games, wins and win_rate
\* (win rates 60.5 and 41)
CompEntryValues ==
    {Absent,
     Composition(Absent, Absent, Absent),
     Composition(Absent, Absent, Some(Fix(60) + Scale \div 2)),
     Composition(Absent, Absent, Some(Fix(41))),
     Composition(Some(0), Some(0), Absent),
     Composition(Some(1), Some(0), Absent),
     Composition(Some(1), Some(1), Some(Fix(41))),
     Composition(Some(3), Some(1), Absent),
     Composition(Some(3), Some(2), Absent),
     Composition(Some(1), Some(2), Absent)}
CompositionsValues ==
    {Absent, Some([compositions |-> Absent])}
      \cup {Some([compositions |-> Some(cs)]) :
              cs \in SeqsUpTo(CompEntryValues, MaxComps)}

Strategy(text, score) ==
    Some([strategy_text |-> text, confidence_score |-> score])
LongText == "Force early dragon fights and punish their slow scaling comp"
\* confidence scores 49.5, 50, 69.5, 70
StrategyEntryValues ==
    {Absent}
      \cup {Strategy(t, Some(Fix(70))) :
              t \in Opt({"", "Invade early", LongText})}
      \cup {Strategy(Some("Ban comfort picks"), s) :
              s \in Opt({Fix(49) + Scale \div 2, Fix(50),
                         Fix(69) + Scale \div 2, Fix(70)})}
StrategiesValues ==
    {Absent, Some([strategies |-> Absent])}
      \cup {Some([strategies |-> Some(ss)]) :
              ss \in SeqsUpTo(StrategyEntryValues, MaxStrategies)}

Champion(name, games) == Some([champion |-> name, games |-> games])
Player(name, id, champs, edf, pv, overall) ==
    Some([player_name |-> name, player_id |-> id,
          most_played_champions |-> champs,
          early_death_frequency |-> edf,
          performance_variance |-> pv,
          matchup_winrate |-> overall])

ClassObjValues == {Absent} \cup {Some([classification |-> c]) : c \in ClassValues}
\* overall win rates 0, 54.5 and 100
WinRateObjValues ==
    {Absent} \cup {Some([overall |-> o]) :
                      o \in Opt({Fix(0), Fix(54) + Scale \div 2, Fix(100)})}
TypicalChamps == Some(<<Champion("Azir", 4), Champion("Orianna", 2)>>)
SixChamps ==
    <<Champion("Azir", 6), Champion("Orianna", 5), Champion("Ahri", 4),
      Champion("Sylas", 3), Champion("Taliyah", 2), Champion("Viktor", 1)>>
\* absent, empty, one champion of every games count, lists of 1..6
\* champions, and lists with a null entry at position 2 and at position 6
ChampsValues ==
    {Absent, Some(<<>>)}
      \cup {Some(<<Champion("Azir", g)>>) : g \in 0..MaxChampGames}
      \cup {Some(SubSeq(SixChamps, 1, k)) : k \in 1..6}
      \cup {Some(<<Champion("Azir", 4), Absent>>),
            Some(SubSeq(SixChamps, 1, 5) \o <<Absent>>)}

\* one player record, varied one group of fields at a time
PlayerEntryValues ==
    {Absent}
      \cup {Player(n, i, TypicalChamps, Absent, Absent, Absent) :
              n \in Opt({"Faker"}), i \in Opt({"player-1"})}
      \cup {Player(Some("Faker"), Absent, c, Absent, Absent, Absent) :
              c \in ChampsValues}
      \cup {Player(Some("Faker"), Absent, TypicalChamps, e, v, Absent) :
              e \in ClassObjValues, v \in ClassObjValues}
      \cup {Player(Some("Faker"), Absent, TypicalChamps, Absent, Absent, w) :
              w \in WinRateObjValues}

\* player i of a roster: two or three champions whose games follow pattern k
RosterPlayer(i, k) ==
    Player(Some("P" \o ToString(i)), Some("id-" \o ToString(i)),
           Some(<<Champion("C" \o ToString(i) \o "a", (i * k) % 7),
                  Champion("C" \o ToString(i) \o "b", (i + 2 * k) % 5),
                  Champion("C" \o ToString(i) \o "c", 9)>>),
           Absent, Absent, Absent)
Rosters == {[i \in 1..n |-> RosterPlayer(i, k)] : n \in 2..MaxPlayers, k \in 0..2}

PlayerTendenciesValues ==
    {Absent, Some([players |-> Absent]), Some([players |-> Some(<<>>)])}
      \cup {Some([players |-> Some(<<p>>)]) : p \in PlayerEntryValues}
      \cup {Some([players |-> Some(r)]) : r \in Rosters}

EmptyPayload ==
    [team |-> Absent, matches_analyzed |-> Absent, mock_data_used |-> Absent,
     team_strategy |-> Absent, player_tendencies |-> Absent,
     team_compositions |-> Absent, counter_strategies |-> Absent]

FullPayload ==
    [team |-> Some([name |-> Some("Team Liquid")]),
     matches_analyzed |-> Some(5),
     mock_data_used |-> Some(FALSE),
     team_strategy |->
        TeamStrategy(TypicalMetric, TypicalMetric, Absent, TypicalAvgLength),
     player_tendencies |->
        Some([players |-> Some([i \in 1..2 |-> RosterPlayer(i, 1)])]),
     team_compositions |->
        Some([compositions |-> Some(<<Composition(Some(3), Some(2), Absent)>>)]),
     counter_strategies |->
        Some([strategies |->
                Some(<<Strategy(Some("Invade early"), Some(Fix(80)))>>)])]

Backgrounds == {EmptyPayload, FullPayload}

Payloads ==
    UNION {
        {[b EXCEPT !.team = t] : t \in TeamValues}
          \cup {[b EXCEPT !.matches_analyzed = n, !.mock_data_used = m] :
                  n \in Opt(0..MaxAnalyzed), m \in Opt(BOOLEAN)}
          \cup {[b EXCEPT !.team_compositions = c, !.matches_analyzed = n] :
                  c \in CompositionsValues, n \in Opt({0, 1, 7})}
          \cup {[b EXCEPT !.team_strategy = s] : s \in TeamStrategyValues}
          \cup {[b EXCEPT !.player_tendencies = p] : p \in PlayerTendenciesValues}
          \cup {[b EXCEPT !.counter_strategies = s] : s \in StrategiesValues}
        : b \in Backgrounds}

(***************************************************************************)
(* The state machine: a payload arrives for a requested team, is mapped    *)
(* (fetchScoutingReport, scouting.ts:206-216), and the dashboard derives   *)
(* the confidence from the report (Index.tsx:66).                          *)
(***************************************************************************)
\* nothing asked, summarised or answered yet
TextInitial ==
    /\ again = Absent
    /\ insight = Absent
    /\ question = ""
    /\ intent = Absent
    /\ response = Absent
    /\ calls = 0

\* AIChatBox.tsx:26, the assistant's greeting
Greeting ==
    "Tactical AI online. Ask a question about the current scouting report"
        \o EmDash \o "e.g. ban strategy, counter comp, or win conditions."

\* Index.tsx:18-23, the page as constructed
IndexInitial ==
    /\ selectedOpponent = "Team Liquid"
    /\ scoutingReport = Absent
    /\ isLoading = FALSE
    /\ error = Absent
    /\ draftAnalysis = Absent
    /\ draftAnalysisLoading = FALSE

\* AIChatBox.tsx:22-33, the chat box as constructed
AIChatBoxInitial ==
    /\ messages = <<[id |-> 1, role |-> "assistant", content |-> Greeting]>>
    /\ input = ""
    /\ isTyping = FALSE
    /\ nextId = 2

\* no request has been issued
NetInitial == requests = {} /\ issued = 0

Init ==
    /\ TextInitial /\ IndexInitial /\ AIChatBoxInitial /\ NetInitial
    /\ data \in Payloads
    /\ teamName \in RequestedNames
    /\ now = 0
    /\ report = Absent
    /\ threw = FALSE
    /\ confidence = Absent
    /\ pc = "received"

\* scouting.ts:215  return mapApiResponseToScoutingReport(data, teamName)
Map ==
    /\ pc = "received"
    /\ report' = mapApiResponseToScoutingReport(data, teamName, now)
    /\ threw' = mapperThrows(data)
    /\ now' = now + 1
    /\ pc' = "mapped"
    /\ UNCHANGED <<data, teamName, confidence>>
    /\ UNCHANGED <<textVars, pageVars, chatVars, netVars>>

\* Index.tsx:66  getScoutingConfidence(scoutingReport)
Estimate ==
    /\ pc = "mapped"
    /\ confidence' = getScoutingConfidence(report)
    /\ pc' = "estimated"
    /\ UNCHANGED <<data, teamName, now, report, threw>>
    /\ UNCHANGED <<textVars, pageVars, chatVars, netVars>>

Next == Map \/ Estimate

Spec == Init /\ [][Next]_vars

(***************************************************************************)
(* Reports handed to the estimator directly.  The Cloud9 report of         *)
(* Frontend/src/data/mockScoutingReports.ts:44-80 carries neither          *)
(* limitedDataMode nor matchesAnalyzed; both optional fields range over    *)
(* absent and every value.                                                 *)
(***************************************************************************)
MockPlayer(name, role, kda, winRate, tendency, pool) ==
    [name |-> name, role |-> role, kda |-> kda, winRate |-> winRate,
     tendency |-> tendency, championPool |-> pool]
MockStrength(area, rating, trend) ==
    [area |-> area, rating |-> rating, trend |-> trend]
MockStrategy(id, title, description, effectiveness, phase) ==
    [id |-> id, title |-> title, description |-> description,
     effectiveness |-> effectiveness, phase |-> phase]
MockRisk(champion, role, threat, priority, notes) ==
    [champion |-> champion, role |-> role, threat |-> threat,
     priority |-> priority, notes |-> notes]

MockCloud9 ==
    [teamName |-> "Cloud9",
     record |-> [wins |-> 20, losses |-> 12],
     winRate |-> 62,
     avgGameTime |-> "29:45",
     players |->
        <<MockPlayer("Vulcan", "Support", "1.9/2.1/12.8", 61, "aggressive",
                     <<"Rakan", "Alistar", "Renata">>),
          MockPlayer("Berserker", "ADC", "9.1/2.4/5.2", 68, "aggressive",
                     <<"Zeri", "Lucian", "Draven">>),
          MockPlayer("Emenes", "Mid", "5.8/2.9/6.4", 58, "balanced",
                     <<"Viktor", "Orianna", "Taliyah">>),
          MockPlayer("Fudge", "Top", "3.5/2.8/4.9", 55, "defensive",
                     <<"Ornn", "K'Sante", "Sion">>),
          MockPlayer("Blaber", "Jungle", "4.2/3.2/8.1", 64, "aggressive",
                     <<"Kindred", "Graves", "Olaf">>)>>,
     recentMatches |-> <<>>,
     strengths |->
        <<MockStrength("Early Game", 88, "up"),
          MockStrength("Team Fighting", 65, "down"),
          MockStrength("Vision Control", 72, "stable"),
          MockStrength("Objective Control", 81, "up")>>,
     counterStrategies |->
        <<MockStrategy("cs1", "Scale and Team Fight",
                       "Draft scaling and survive early.", "high", "late"),
          MockStrategy("cs2", "Shut Down Berserker",
                       "Focus resources on neutralizing bot lane advantage.",
                       "high", "early"),
          MockStrategy("cs3", "Invade Blaber",
                       "Counter-jungle when he shows on opposite side.",
                       "medium", "early")>>,
     draftRisks |->
        <<MockRisk("Zeri", "ADC", "ban", 92, "Berserker's best champion"),
          MockRisk("Kindred", "Jungle", "pick", 78, "Blaber's comfort pick"),
          MockRisk("Rakan", "Support", "ban", 70, "Vulcan engage enabler")>>,
     lastUpdated |-> 0,
     limitedDataMode |-> Absent,
     matchesAnalyzed |-> Absent]

ConfReports ==
    {[MockCloud9 EXCEPT !.limitedDataMode = l, !.matchesAnalyzed = n] :
        l \in Opt(BOOLEAN), n \in Opt(0..MaxMatches)}

\* the dashboard holds no report (Index.tsx:19) or one of ConfReports
InitConf ==
    /\ TextInitial /\ IndexInitial /\ AIChatBoxInitial /\ NetInitial
    /\ data = EmptyPayload
    /\ teamName = "Cloud9"
    /\ now = 0
    /\ report \in Opt(ConfReports)
    /\ threw = FALSE
    /\ confidence = Absent
    /\ pc = "mapped"

NextConf == Estimate

SpecConf == InitConf /\ [][NextConf]_vars

(***************************************************************************)
(* JavaScript array and string helpers                                     *)
(***************************************************************************)
\* Array.prototype.sort((a, b) => key(b) - key(a)): stable, the larger key
\* first; keys[i] is the key of list[i]
SortDescByKeys(list, keys) ==
    LET rank(i) == 1 + Cardinality({j \in 1..Len(list) :
                        \/ keys[j] > keys[i]
                        \/ keys[j] = keys[i] /\ j < i})
    IN [k \in 1..Len(list) |-> list[CHOOSE i \in 1..Len(list) : rank(i) = k]]

\* Array.prototype.slice(0, n)
Slice0(list, n) == SubSeq(list, 1, Min(n, Len(list)))

RECURSIVE Join(_, _)
\* Array.prototype.join(sep) of an array of strings
Join(list, sep) ==
    IF list = <<>> THEN ""
    ELSE IF Len(list) = 1 THEN list[1]
    ELSE list[1] \o sep \o Join(SubSeq(list, 2, Len(list)), sep)

\* a || b of two strings
OrElse(a, b) == IF a /= "" THEN a ELSE b

(***************************************************************************)
(* generateHowToWinInsight, insight.ts:31-76                               *)
(***************************************************************************)
\* insight.ts:41-42  order[e] ?? 0
effectivenessOrder(e) ==
    CASE e = "high" -> 3 [] e = "medium" -> 2 [] e = "low" -> 1 [] OTHER -> 0

\* a mutation of sortedStrategies: the comparator subtracts the other way,
\* order[a] - order[b]
sortedStrategies_ascending(rep) ==
    SortDescByKeys(rep.counterStrategies,
                   [i \in 1..Len(rep.counterStrategies) |->
                      0 - effectivenessOrder(rep.counterStrategies[i].effectiveness)])

\* insight.ts:40-43  a sorted copy of report.counterStrategies
sortedStrategies(rep) ==
    SortDescByKeys(rep.counterStrategies,
                   [i \in 1..Len(rep.counterStrategies) |->
                      effectivenessOrder(rep.counterStrategies[i].effectiveness)])

\* a mutation of strategyBullets: every strategy becomes a bullet
strategyBullets_all(rep) ==
    [i \in 1..Len(rep.counterStrategies) |->
        OrElse(sortedStrategies(rep)[i].description, sortedStrategies(rep)[i].title)]

\* insight.ts:44-46  strategies.slice(0, 3), s.description || s.title
strategyBullets(rep) ==
    LET top == Slice0(sortedStrategies(rep), 3)
    IN [i \in 1..Len(top) |-> OrElse(top[i].description, top[i].title)]

RECURSIVE ReduceWeakest_lastMinimum(_, _)
\* a mutation of ReduceWeakest: s.rating <= min.rating, the last minimum
ReduceWeakest_lastMinimum(strengths, k) ==
    IF k = 1 THEN strengths[1]
    ELSE LET min == ReduceWeakest_lastMinimum(strengths, k - 1)
         IN IF strengths[k].rating <= min.rating THEN strengths[k] ELSE min

RECURSIVE ReduceWeakest(_, _)
\* strengths.reduce((min, s) => s.rating < min.rating ? s : min) over the
\* first k entries, k >= 1
ReduceWeakest(strengths, k) ==
    IF k = 1 THEN strengths[1]
    ELSE LET min == ReduceWeakest(strengths, k - 1)
         IN IF strengths[k].rating < min.rating THEN strengths[k] ELSE min

\* insight.ts:49-56
exploitBullets(rep) ==
    IF Len(rep.strengths) > 0
    THEN LET weakest == ReduceWeakest(rep.strengths, Len(rep.strengths))
         IN <<"Exploit " \o rep.teamName \o "'s weaker " \o weakest.area
                \o " (" \o ToString(weakest.rating) \o "/100)" \o EmDash
                \o "look for plays in that phase.">>
    ELSE <<>>

\* draftRisks.filter((r) => r.threat === "ban")
bansOf(risks) == LET isBan(r) == r.threat = "ban" IN SelectSeq(risks, isBan)
\* draftRisks.filter((r) => r.threat === "pick" || r.threat === "flex")
picksOf(risks) ==
    LET isPick(r) == r.threat = "pick" \/ r.threat = "flex"
    IN SelectSeq(risks, isPick)
\* list.sort((a, b) => b.priority - a.priority)
sortByPriority(risks) ==
    SortDescByKeys(risks, [i \in 1..Len(risks) |-> risks[i].priority])

\* insight.ts:59, 61-64
banBullets(rep) ==
    LET bans == bansOf(rep.draftRisks)
    IN IF Len(bans) > 0
       THEN LET topBan == sortByPriority(bans)[1]
            IN <<"Priority ban: " \o topBan.champion
                   \o " (" \o topBan.notes \o ").">>
       ELSE <<>>

\* insight.ts:60, 65-68; soFar is the number of bullets pushed before
pickBullets(rep, soFar) ==
    LET picks == picksOf(rep.draftRisks)
    IN IF Len(picks) > 0 /\ soFar < 6
       THEN LET topPick == sortByPriority(picks)[1]
            IN <<"Contest or deny: " \o topPick.champion \o EmDash
                   \o topPick.notes>>
       ELSE <<>>

\* insight.ts:36-68
insightBullets(rep) ==
    LET upToBan == strategyBullets(rep) \o exploitBullets(rep) \o banBullets(rep)
    IN upToBan \o pickBullets(rep, Len(upToBan))

\* insight.ts:70-73
insightSummary(rep, bullets) ==
    IF Len(bullets) > 0
    THEN "To beat " \o rep.teamName \o ", focus on the tactics below. Use "
           \o "draft bans and picks to limit their comfort and play to "
           \o "their weaknesses."
    ELSE "Scouting data for " \o rep.teamName \o " is loaded. Ask the AI "
           \o "assistant for tailored win conditions."

\* insight.ts:31-76; null for no report
generateHowToWinInsight(rep) ==
    IF rep = Absent THEN Absent
    ELSE Some([summary |-> insightSummary(Val(rep), insightBullets(Val(rep))),
               bullets |-> insightBullets(Val(rep))])

(***************************************************************************)
(* JavaScript strings.  A string is a TLA+ string; the characters told     *)
(* apart are the ASCII letters and the whitespace characters space, tab    *)
(* and line feed.                                                          *)
(***************************************************************************)
CharAt(s, i) == SubSeq(s, i, i)
Rest(s) == SubSeq(s, 2, Len(s))
UpperCase == "ABCDEFGHIJKLMNOPQRSTUVWXYZ"
LowerCase == "abcdefghijklmnopqrstuvwxyz"
\* the characters \s matches and trim() removes
isWhitespace(c) == c \in {" ", "\t", "\n"}

lowerChar(c) ==
    IF \E i \in 1..Len(UpperCase) : CharAt(UpperCase, i) = c
    THEN CharAt(LowerCase, CHOOSE i \in 1..Len(UpperCase) : CharAt(UpperCase, i) = c)
    ELSE c

RECURSIVE toLowerCase(_)
\* String.prototype.toLowerCase
toLowerCase(s) ==
    IF s = "" THEN "" ELSE lowerChar(CharAt(s, 1)) \o toLowerCase(Rest(s))

RECURSIVE trimStart(_)
trimStart(s) ==
    IF s /= "" /\ isWhitespace(CharAt(s, 1)) THEN trimStart(Rest(s)) ELSE s

RECURSIVE trimEnd(_)
trimEnd(s) ==
    IF s /= "" /\ isWhitespace(CharAt(s, Len(s)))
    THEN trimEnd(SubSeq(s, 1, Len(s) - 1)) ELSE s

\* String.prototype.trim
trim(s) == trimEnd(trimStart(s))

RECURSIVE collapseWhitespace(_)
\* s.replace(/\s+/g, " "): every maximal run of whitespace becomes one space
collapseWhitespace(s) ==
    IF s = "" THEN ""
    ELSE IF isWhitespace(CharAt(s, 1))
         THEN " " \o collapseWhitespace(trimStart(s))
         ELSE CharAt(s, 1) \o collapseWhitespace(Rest(s))

RECURSIVE replaceUnderscores_first(_)
\* a mutation of replaceUnderscores: replace("_", " "), the first one only
replaceUnderscores_first(s) ==
    IF s = "" THEN ""
    ELSE IF CharAt(s, 1) = "_" THEN " " \o Rest(s)
         ELSE CharAt(s, 1) \o replaceUnderscores_first(Rest(s))

RECURSIVE replaceUnderscores(_)
\* s.replace(/_/g, " ")
replaceUnderscores(s) ==
    IF s = "" THEN ""
    ELSE (IF CharAt(s, 1) = "_" THEN " " ELSE CharAt(s, 1))
            \o replaceUnderscores(Rest(s))

\* String.prototype.includes
includes(s, k) ==
    \E i \in 0..(Len(s) - Len(k)) : SubSeq(s, i + 1, i + Len(k)) = k

(***************************************************************************)
(* Chat intents, lib/chatIntents (src/unnamed/part_006:108-279)            *)
(***************************************************************************)
INTENT_IDS ==
    <<"best_ban_strategy", "counter_comp", "win_conditions",
      "early_game_plan", "weak_player_targeting">>

\* Object.entries(INTENT_MATCHES), in insertion order
INTENT_MATCHES ==
    <<[intentId |-> "best_ban_strategy",
       keywords |-> <<"best ban", "ban strategy", "bans", "priority ban",
                      "what to ban", "ban recommendation", "ban pick">>],
      [intentId |-> "counter_comp",
       keywords |-> <<"counter their comp", "counter comp",
                      "counter the comp", "counter composition",
                      "counter their team", "counter pick",
                      "counter strategy", "counter them">>],
      [intentId |-> "win_conditions",
       keywords |-> <<"win condition", "win conditions", "how to win",
                      "how do we win", "what do we need to win",
                      "path to victory">>],
      [intentId |-> "early_game_plan",
       keywords |-> <<"early game", "early plan", "early game plan",
                      "early strategy", "early phase", "first 15",
                      "laning", "early pressure">>],
      [intentId |-> "weak_player_targeting",
       keywords |-> <<"weak player", "weakest player",
                      "target which player", "who to target", "weak link",
                      "exploit player", "focus which lane", "weak lane">>]>>

\* a mutation of normalize: the case is kept
normalize_keepCase(q) == collapseWhitespace(trim(q))

\* part_006:171-173
normalize(q) == collapseWhitespace(trim(toLowerCase(q)))

\* part_006:182  keywords.some((k) => q.includes(k))
someKeyword(keywords, q) ==
    \E k \in 1..Len(keywords) : includes(q, keywords[k])

RECURSIVE lastMatch(_, _)
\* a mutation of firstMatch: the table is walked from its end
lastMatch(q, i) ==
    IF Len(INTENT_MATCHES) + 1 - i < 1 THEN Absent
    ELSE IF someKeyword(INTENT_MATCHES[Len(INTENT_MATCHES) + 1 - i].keywords, q)
         THEN Some(INTENT_MATCHES[Len(INTENT_MATCHES) + 1 - i].intentId)
         ELSE lastMatch(q, i + 1)

RECURSIVE firstMatch(_, _)
\* part_006:181-184  the loop from entry i on
firstMatch(q, i) ==
    IF i > Len(INTENT_MATCHES) THEN Absent
    ELSE IF someKeyword(INTENT_MATCHES[i].keywords, q)
         THEN Some(INTENT_MATCHES[i].intentId)
         ELSE firstMatch(q, i + 1)

\* part_006:178-185; null is Absent
matchIntent(q) ==
    IF normalize(q) = "" THEN Absent ELSE firstMatch(normalize(q), 1)

(***************************************************************************)
(* getPredefinedResponse, part_006:191-279                                 *)
(***************************************************************************)
\* the bullet character U+2022, written in ASCII
Bullet == "*"

\* part_006:198
noReportResponse(intentId) ==
    "No scouting data loaded. Select an opponent and generate a report to get "
        \o replaceUnderscores(intentId) \o " insights."

\* part_006:202-210
bestBanStrategy(rep, team) ==
    LET bans == sortByPriority(bansOf(rep.draftRisks))
        top == Slice0(bans, 5)
        lines == [i \in 1..Len(top) |->
                    Bullet \o " " \o top[i].champion \o " ("
                       \o ToString(top[i].priority) \o "%): " \o top[i].notes]
    IN IF Len(bans) = 0
       THEN "No priority bans identified for " \o team \o " in the current "
              \o "report. Check draft risks after loading more data."
       ELSE "Best ban strategy vs " \o team \o ":\n\n" \o Join(lines, "\n")
              \o "\n\nPrioritize banning " \o top[1].champion
              \o " when possible."

\* part_006:212-221
counterComp(rep, team) ==
    LET isStrong(s) == s.effectiveness = "high" \/ s.effectiveness = "medium"
        strategies == Slice0(SelectSeq(rep.counterStrategies, isStrong), 5)
        lines == [i \in 1..Len(strategies) |->
                    Bullet \o " [" \o strategies[i].effectiveness \o "] "
                       \o strategies[i].description]
    IN IF Len(strategies) = 0
       THEN "No counter-comp strategies generated yet for " \o team
              \o ". Ensure scouting report has been generated."
       ELSE "Counter " \o team \o "'s comp:\n\n" \o Join(lines, "\n")

\* part_006:223-242
winConditions(rep, team) ==
    LET isHigh(s) == s.effectiveness = "high"
        high == SelectSeq(rep.counterStrategies, isHigh)
        bans == sortByPriority(bansOf(rep.draftRisks))
        keyPart ==
            IF Len(high) > 0
            THEN <<"Key strategies: "
                     \o Join([i \in 1..Len(high) |-> high[i].description], " ")
                     \o ".">>
            ELSE <<>>
        weakPart ==
            IF Len(rep.strengths) > 0
            THEN LET weak == ReduceWeakest(rep.strengths, Len(rep.strengths))
                 IN <<"Exploit: Their weaker " \o weak.area \o " ("
                        \o ToString(weak.rating) \o "/100)" \o EmDash
                        \o "play around that phase.">>
            ELSE <<>>
        draftPart ==
            IF Len(rep.draftRisks) > 0 /\ Len(bans) > 0
            THEN <<"Draft: Deny " \o bans[1].champion \o " (" \o bans[1].notes
                     \o ").">>
            ELSE <<>>
        parts == keyPart \o weakPart \o draftPart
    IN IF Len(parts) > 0
       THEN "Win conditions vs " \o team \o ":\n\n" \o Join(parts, "\n\n")
       ELSE "Win conditions for " \o team \o " will appear here once counter "
              \o "strategies and strengths are available."

\* part_006:255  strengths.find((s) => s.area.toLowerCase().includes("early"))
findEarlyStrength(strengths) ==
    LET isEarly(s) == includes(toLowerCase(s.area), "early")
    IN Slice0(SelectSeq(strengths, isEarly), 1)

\* part_006:244-263
earlyGamePlan(rep, team) ==
    LET isEarly(s) == s.phase = "early"
        early == SelectSeq(rep.counterStrategies, isEarly)
        earlyRisks == Slice0(picksOf(rep.draftRisks), 3)
        found == findEarlyStrength(rep.strengths)
        strategyPart ==
            IF Len(early) > 0
            THEN <<"Early-phase strategies:\n"
                     \o Join([i \in 1..Len(early) |->
                                Bullet \o " " \o early[i].description], "\n")>>
            ELSE <<>>
        riskPart ==
            IF Len(earlyRisks) > 0
            THEN <<"Contest early: "
                     \o Join([i \in 1..Len(earlyRisks) |-> earlyRisks[i].champion],
                             ", ")
                     \o EmDash \o earlyRisks[1].notes>>
            ELSE <<>>
        strengthPart ==
            IF Len(found) > 0
            THEN <<"Note: " \o team \o "'s early rating (" \o found[1].area
                     \o ") is " \o ToString(found[1].rating) \o "/100" \o EmDash
                     \o (IF found[1].trend = "up"
                         THEN "they're strong early; play safe or match pressure."
                         ELSE "look to exploit if we have stronger early.")>>
            ELSE <<>>
        parts == strategyPart \o riskPart \o strengthPart
    IN IF Len(parts) > 0
       THEN "Early game plan vs " \o team \o ":\n\n" \o Join(parts, "\n\n")
       ELSE "Early game plan for " \o team \o ": generate a scouting report "
              \o "to see early-phase strategies and draft priorities."

\* part_006:272  one line of a low-win-rate player; championPool is set by
\* the mapper and by the mock reports alike
weakPlayerLine(p) ==
    Bullet \o " " \o p.name \o " (" \o p.role \o "): " \o ToString(p.winRate)
        \o "% win rate, " \o p.tendency \o EmDash
        \o Join(Slice0(p.championPool, 2), "/")

\* part_006:265-274
weakPlayerTargeting(rep, team) ==
    LET players == SortDescByKeys(rep.players,
                       [i \in 1..Len(rep.players) |-> 0 - rep.players[i].winRate])
        isLow(p) == p.winRate < 55
        low == Slice0(SelectSeq(players, isLow), 3)
    IN IF Len(players) = 0
       THEN "No player-level data for " \o team \o " in this report. Load "
              \o "more matches to see weak-player targeting."
       ELSE "Weak player targeting vs " \o team \o ":\n\nFocus pressure on "
              \o players[1].name \o " (" \o players[1].role \o ", "
              \o ToString(players[1].winRate) \o "% win rate, "
              \o players[1].tendency \o ").\n\n"
              \o Join([i \in 1..Len(low) |-> weakPlayerLine(low[i])], "\n")
              \o "\n\nDeny their comfort picks and exploit " \o players[1].name
              \o "'s tendency in lane."

\* part_006:191-279; rep is an optional report
getPredefinedResponse(intentId, rep) ==
    IF rep = Absent THEN noReportResponse(intentId)
    ELSE LET team == Val(rep).teamName
         IN CASE intentId = "best_ban_strategy" -> bestBanStrategy(Val(rep), team)
              [] intentId = "counter_comp" -> counterComp(Val(rep), team)
              [] intentId = "win_conditions" -> winConditions(Val(rep), team)
              [] intentId = "early_game_plan" -> earlyGamePlan(Val(rep), team)
              [] intentId = "weak_player_targeting" ->
                    weakPlayerTargeting(Val(rep), team)
              [] OTHER -> ""

(***************************************************************************)
(* Reports handed to the insight generator and to the predefined           *)
(* responses: the Cloud9 report and a report with every list empty, one    *)
(* list varied at a time.                                                  *)
(***************************************************************************)
\* a report holds up to MaxReportStrategies counter-strategies
MaxReportStrategies == 5
\* getScoutingConfidence, generateHowToWinInsight and getPredefinedResponse
\* are called up to MaxCalls times on a report
MaxCalls == 3

EffectivenessValues == {"high", "medium", "low"}

\* strategy k of a report: the second has no description, the odd ones are
\* early-phase strategies
ReportStrategy(k, e) ==
    MockStrategy("cs" \o ToString(k), "Title " \o ToString(k),
                 IF k = 2 THEN "" ELSE "Plan " \o ToString(k),
                 e, IF k % 2 = 1 THEN "early" ELSE "late")

\* lists of up to MaxExhaustive strategies take every effectiveness pattern
MaxExhaustive == 3
EffectivenessCycle == <<"low", "high", "medium">>
\* the effectiveness patterns of a list of n strategies: all of them for a
\* short list; for a longer one the constant patterns and the cycles
\* low, high, medium and medium, high, low from every starting point
EffectivenessPatterns(n) ==
    IF n <= MaxExhaustive THEN [1..n -> EffectivenessValues]
    ELSE {[k \in 1..n |-> e] : e \in EffectivenessValues}
           \cup {[k \in 1..n |-> EffectivenessCycle[((k + s) % 3) + 1]] : s \in 0..2}
           \cup {[k \in 1..n |-> EffectivenessCycle[((s - k) % 3) + 1]] : s \in 0..2}

\* the lists of 0..MaxReportStrategies strategies
StrategyLists ==
    UNION {{[k \in 1..n |-> ReportStrategy(k, es[k])] :
               es \in EffectivenessPatterns(n)} :
           n \in 0..MaxReportStrategies}

StrengthLists ==
    {<<>>,
     MockCloud9.strengths,
     <<MockStrength("Team Fighting", 65, "down"),
       MockStrength("early game", 65, "down"),
       MockStrength("Vision Control", 70, "stable")>>,
     <<MockStrength("Late Game", 40, "up")>>}

RiskLists ==
    {<<>>,
     MockCloud9.draftRisks,
     <<MockRisk("Azir", "Mid", "pick", 60, "Faker - 1 games"),
       MockRisk("Ahri", "Mid", "flex", 85, "flexed mid or support"),
       MockRisk("Jinx", "ADC", "pick", 85, "Gumayusi - 4 games"),
       MockRisk("Sylas", "Mid", "pick", 70, "Faker - 2 games")>>,
     <<MockRisk("Rakan", "Support", "ban", 70, "Vulcan engage enabler"),
       MockRisk("Zeri", "ADC", "ban", 92, "Berserker's best champion")>>,
     <<MockRisk("Lee Sin", "Jungle", "flex", 55, "")>>,
     <<MockRisk("Azir", "Mid", "ban", 80, "first of two"),
       MockRisk("Kalista", "ADC", "ban", 80, "second of two"),
       MockRisk("Gnar", "Top", "pick", 50, "Fudge - 0 games")>>,
     [i \in 1..6 |-> MockRisk("B" \o ToString(i), "Top", "ban", 60 + i, "ban me")]}

PlayerLists ==
    {<<>>,
     MockCloud9.players,
     <<MockPlayer("Jojo", "Mid", "4.0/3.0/5.0", 48, "balanced", <<"Azir">>),
       MockPlayer("Fudge", "Top", "3.5/2.8/4.9", 52, "defensive", <<>>),
       MockPlayer("Zven", "Support", "1.0/3.0/9.0", 40, "defensive",
                  <<"Rakan", "Nautilus", "Thresh">>),
       MockPlayer("Blaber", "Jungle", "4.2/3.2/8.1", 50, "aggressive",
                  <<"Kindred", "Graves">>)>>}

EmptyReport ==
    [MockCloud9 EXCEPT !.teamName = "G2", !.players = <<>>, !.strengths = <<>>,
                       !.counterStrategies = <<>>, !.draftRisks = <<>>]

\* reports as the mapper returns them: of the empty payload, of the full
\* payload and of the full payload with a roster of MaxPlayers players
MappedReports ==
    {Val(mapApiResponseToScoutingReport(d, "G2", 0)) :
        d \in {EmptyPayload, FullPayload}
                \cup {[FullPayload EXCEPT !.player_tendencies =
                          Some([players |->
                                  Some([i \in 1..MaxPlayers |-> RosterPlayer(i, k)])])] :
                        k \in 0..2}}

InsightReports ==
    MappedReports
      \cup UNION {{[b EXCEPT !.counterStrategies = s] : s \in StrategyLists}
                    \cup {[b EXCEPT !.strengths = s] : s \in StrengthLists}
                    \cup {[b EXCEPT !.draftRisks = r] : r \in RiskLists}
                    \cup {[b EXCEPT !.players = p] : p \in PlayerLists}
                  : b \in {MockCloud9, EmptyReport}}

(***************************************************************************)
(* What a call leaves of its report argument.  Every sort in insight.ts    *)
(* and part_006 has a fresh array as its receiver: a spread copy           *)
(* (insight.ts:40, part_006:213, 266) or the result of filter              *)
(* (insight.ts:62, 66, part_006:203, 236); no array of the report is       *)
(* written.                                                                *)
(***************************************************************************)
\* insight.ts:7-26 reads limitedDataMode and matchesAnalyzed only
reportAfterConfidence(rep) == rep

\* a mutation of reportAfterInsight: report.counterStrategies.sort(...),
\* without the spread copy of insight.ts:40
reportAfterInsight_sortInPlace(rep) ==
    {[r EXCEPT !.counterStrategies = sortedStrategies(r)] : r \in rep}

reportAfterInsight(rep) == rep

reportAfterResponse(intentId, rep) == rep

(***************************************************************************)
(* The three functions called on one report, any number of times up to     *)
(* MaxCalls, in any order                                                  *)
(***************************************************************************)
InitInsight ==
    /\ TextInitial /\ IndexInitial /\ AIChatBoxInitial /\ NetInitial
    /\ data = EmptyPayload
    /\ teamName = "Cloud9"
    /\ now = 0
    /\ report \in Opt(InsightReports)
    /\ threw = FALSE
    /\ confidence = Absent
    /\ pc = "serving"

\* insight.ts:7  getScoutingConfidence(report)
CallConfidence ==
    /\ pc = "serving" /\ calls < MaxCalls
    /\ confidence' = getScoutingConfidence(report)
    /\ report' = reportAfterConfidence(report)
    /\ calls' = calls + 1
    /\ UNCHANGED <<data, teamName, now, threw, pc>>
    /\ UNCHANGED <<again, insight, question, intent, response>>
    /\ UNCHANGED <<pageVars, chatVars, netVars>>

\* insight.ts:31  generateHowToWinInsight(report)
CallInsight ==
    /\ pc = "serving" /\ calls < MaxCalls
    /\ insight' = generateHowToWinInsight(report)
    /\ report' = reportAfterInsight(report)
    /\ calls' = calls + 1
    /\ UNCHANGED <<data, teamName, now, threw, confidence, pc>>
    /\ UNCHANGED <<again, question, intent, response>>
    /\ UNCHANGED <<pageVars, chatVars, netVars>>

\* part_006:191  getPredefinedResponse(intentId, report)
CallResponse(intentId) ==
    /\ pc = "serving" /\ calls < MaxCalls
    /\ intent' = Some(intentId)
    /\ response' = Some(getPredefinedResponse(intentId, report))
    /\ report' = reportAfterResponse(intentId, report)
    /\ calls' = calls + 1
    /\ UNCHANGED <<data, teamName, now, threw, confidence, pc>>
    /\ UNCHANGED <<again, insight, question>>
    /\ UNCHANGED <<pageVars, chatVars, netVars>>

NextInsight ==
    \/ CallConfidence
    \/ CallInsight
    \/ \E i \in 1..Len(INTENT_IDS) : CallResponse(INTENT_IDS[i])

SpecInsight == InitInsight /\ [][NextInsight]_vars

(***************************************************************************)
(* Questions put to matchIntent: phrases written in lower case, in upper   *)
(* case and capitalised, their words separated and the whole padded by     *)
(* spaces, tabs and line feeds.                                            *)
(***************************************************************************)
upperChar(c) ==
    IF \E i \in 1..Len(LowerCase) : CharAt(LowerCase, i) = c
    THEN CharAt(UpperCase, CHOOSE i \in 1..Len(LowerCase) : CharAt(LowerCase, i) = c)
    ELSE c

RECURSIVE toUpperCase(_)
toUpperCase(s) ==
    IF s = "" THEN "" ELSE upperChar(CharAt(s, 1)) \o toUpperCase(Rest(s))

Capitalised(s) == IF s = "" THEN "" ELSE upperChar(CharAt(s, 1)) \o Rest(s)

Phrases ==
    {<<>>,
     <<"best", "ban", "strategy">>, <<"bans">>, <<"ban">>, <<"turbans">>,
     <<"what", "to", "ban">>, <<"best", "bans", "and", "how", "to", "win">>,
     <<"counter", "their", "comp">>, <<"counter", "pick", "bans">>,
     <<"counter", "them", "early", "game">>,
     <<"how", "to", "win">>, <<"win", "conditions">>,
     <<"path", "to", "victory", "or", "counter", "them">>,
     <<"early", "game", "bans">>, <<"early", "game", "plan">>,
     <<"laning">>, <<"first", "15">>, <<"how", "do", "we", "win", "laning">>,
     <<"weak", "lane", "early", "game">>, <<"who", "to", "target">>,
     <<"weakest", "player">>, <<"weak", "link", "win", "condition">>,
     <<"hello", "coach">>, <<"best", "band">>, <<"early">>}

WordCases(words) ==
    {words,
     [i \in 1..Len(words) |-> toUpperCase(words[i])],
     [i \in 1..Len(words) |-> Capitalised(words[i])]}

Separators == {" ", "   ", "\t", " \n "}
Paddings == {"", " ", "\t  "}

Questions ==
    {"  Best BAN   strategy"}
      \cup {lead \o Join(w, sep) \o trail :
              lead \in Paddings, trail \in Paddings, sep \in Separators,
              w \in UNION {WordCases(p) : p \in Phrases}}

InitAsk ==
    /\ IndexInitial /\ AIChatBoxInitial /\ NetInitial
    /\ data = EmptyPayload
    /\ teamName = "Cloud9"
    /\ now = 0
    /\ report = Absent
    /\ threw = FALSE
    /\ confidence = Absent
    /\ again = Absent
    /\ insight = Absent
    /\ question \in Questions
    /\ intent = Absent
    /\ response = Absent
    /\ calls = 0
    /\ pc = "asking"

\* part_006:178  matchIntent(question)
Ask ==
    /\ pc = "asking"
    /\ intent' = matchIntent(question)
    /\ pc' = "asked"
    /\ UNCHANGED <<data, teamName, now, report, threw, confidence>>
    /\ UNCHANGED <<again, insight, question, response, calls>>
    /\ UNCHANGED <<pageVars, chatVars, netVars>>

NextAsk == Ask

SpecAsk == InitAsk /\ [][NextAsk]_vars

(***************************************************************************)
(* The same payload mapped twice for the same requested name, the clock    *)
(* read by new Date() (scouting.ts:196) advancing between the two calls    *)
(***************************************************************************)
\* scouting.ts:215, called a second time with the same arguments
MapAgain ==
    /\ pc = "mapped"
    /\ again' = mapApiResponseToScoutingReport(data, teamName, now)
    /\ now' = now + 1
    /\ pc' = "remapped"
    /\ UNCHANGED <<data, teamName, report, threw, confidence>>
    /\ UNCHANGED <<insight, question, intent, response, calls>>
    /\ UNCHANGED <<pageVars, chatVars, netVars>>

NextTwice == Map \/ MapAgain

SpecTwice == Init /\ [][NextTwice]_vars

(***************************************************************************)
(* The dashboard page and the chat box with the network between them and   *)
(* the backend.  A request in flight is a record: its number, its kind     *)
(* ("report", "draft", "chat"), the argument sent, and the outcome the     *)
(* network has delivered for it, "pending" until then.  The continuation   *)
(* of the awaiting handler runs as a step of its own once the outcome is   *)
(* there.                                                                  *)
(***************************************************************************)
\* the page and the chat box issue up to MaxRequests requests in all
MaxRequests == 3

\* two of DEFAULT_TEAMS, Index.tsx:15
Teams == {"Team Liquid", "Cloud9"}
\* a draft list as handleAnalyzeSubmit passes it, part_005:58-63
Drafts == {<<"Ahri", "Amumu", "Vayne">>}
\* what the user types into the chat input
ChatInputs == {"  Best ban strategy? "}

Request(id, kind, arg) ==
    [id |-> id, kind |-> kind, arg |-> arg, outcome |-> "pending"]

\* what axios resolves or rejects with: a 2xx response ("ok"; for a report
\* also "malformed", a body with a null strategy; for the chat also
\* "refused", a body with error set, and "empty", a body with response ""),
\* a response outside 2xx ("error"), or the client-side timeout
OutcomesOf(kind) ==
    CASE kind = "report" -> {"ok", "malformed", "error", "timeout"}
      [] kind = "draft" -> {"ok", "error", "timeout"}
      [] kind = "chat" -> {"ok", "refused", "empty", "error", "timeout"}

\* scouting.ts:213, part_006:29, part_004:27
TimeoutOf(kind) ==
    CASE kind = "report" -> 30000 [] kind = "draft" -> 15000 [] kind = "chat" -> 60000

\* the message of the error axios rejects with
RejectionMessage(r) ==
    IF r.outcome = "timeout"
    THEN "timeout of " \o ToString(TimeoutOf(r.kind)) \o "ms exceeded"
    ELSE "Request failed with status code 500"

\* the body of a 2xx response to a report request for team
ServedPayload(team, outcome) ==
    IF outcome = "ok"
    THEN [FullPayload EXCEPT !.team = Some([name |-> Some(team)])]
    ELSE [EmptyPayload EXCEPT
            !.counter_strategies = Some([strategies |-> Some(<<Absent>>)])]

\* the body of a 2xx response to a draft analysis, part_006:6-17
ServedAnalysis(draft) ==
    [risk_alerts |-> <<>>,
     picks |-> [i \in 1..Len(draft) |-> [champion |-> draft[i]]]]

\* the body of a 2xx response to a chat question, part_004:7-11
ServedChat(outcome) ==
    [response |-> IF outcome = "ok" THEN "Ban Zeri." ELSE "",
     provider |-> "coach",
     error |-> IF outcome = "refused" THEN Some("provider unavailable") ELSE Absent]

Rejected(r) == r.outcome \in {"error", "timeout"}

\* Index.tsx:25-30  fetchScoutingReport(teamName) up to the await
StartFetch(t) ==
    IF trim(t) = ""
    THEN UNCHANGED <<isLoading, error, requests, issued>>
    ELSE /\ isLoading' = TRUE
         /\ error' = Absent
         /\ requests' = requests \cup {Request(issued + 1, "report", <<t>>)}
         /\ issued' = issued + 1

\* Index.tsx:44-46  the effect of the first render
Mount ==
    /\ pc = "constructed"
    /\ pc' = "mounted"
    /\ StartFetch(selectedOpponent)
    /\ UNCHANGED <<data, teamName, now, report, threw, confidence>>
    /\ UNCHANGED <<selectedOpponent, scoutingReport, draftAnalysis,
                   draftAnalysisLoading>>
    /\ UNCHANGED <<textVars, chatVars>>
\* a mutation of handleOpponentSelect: the fetches still in flight are
\* cancelled when the opponent changes
handleOpponentSelect_cancelling(t) ==
    /\ pc = "mounted" /\ issued < MaxRequests
    /\ t /= selectedOpponent
    /\ selectedOpponent' = t
    /\ isLoading' = TRUE
    /\ error' = Absent
    /\ requests' = {r \in requests : r.kind /= "report"}
                      \cup {Request(issued + 1, "report", <<t>>)}
    /\ issued' = issued + 1
    /\ UNCHANGED <<data, teamName, now, report, threw, confidence, pc>>
    /\ UNCHANGED <<scoutingReport, draftAnalysis, draftAnalysisLoading>>
    /\ UNCHANGED <<textVars, chatVars>>

\* Index.tsx:48-50 with the effect of 44-46 that the changed opponent
\* triggers; setting the opponent it already is changes nothing
handleOpponentSelect(t) ==
    /\ pc = "mounted" /\ issued < MaxRequests
    /\ t /= selectedOpponent
    /\ selectedOpponent' = t
    /\ StartFetch(t)
    /\ UNCHANGED <<data, teamName, now, report, threw, confidence, pc>>
    /\ UNCHANGED <<scoutingReport, draftAnalysis, draftAnalysisLoading>>
    /\ UNCHANGED <<textVars, chatVars>>

\* Index.tsx:52-56 up to the await; the form that calls it is disabled
\* while an analysis is loading, part_005:133-141
handleAnalyzeDraft(draftList) ==
    /\ pc = "mounted" /\ issued < MaxRequests
    /\ ~draftAnalysisLoading
    /\ draftAnalysisLoading' = TRUE
    /\ draftAnalysis' = Absent
    /\ requests' = requests \cup {Request(issued + 1, "draft", draftList)}
    /\ issued' = issued + 1
    /\ UNCHANGED <<data, teamName, now, report, threw, confidence, pc>>
    /\ UNCHANGED <<selectedOpponent, scoutingReport, isLoading, error>>
    /\ UNCHANGED <<textVars, chatVars>>

\* AIChatBox.tsx:172  onChange of the input (and 158, a quick prompt)
setInput(t) ==
    /\ pc = "mounted"
    /\ input /= t
    /\ input' = t
    /\ UNCHANGED <<messages, isTyping, nextId>>
    /\ UNCHANGED <<mapVars, textVars, pageVars, netVars>>

\* a mutation of handleSend: the id is read without the increment,
\* nextIdRef.current for nextIdRef.current++
handleSend_noIncrement ==
    /\ pc = "mounted" /\ issued < MaxRequests
    /\ trim(input) /= ""
    /\ messages' = Append(messages, [id |-> nextId, role |-> "user",
                                     content |-> trim(input)])
    /\ nextId' = nextId
    /\ input' = ""
    /\ isTyping' = TRUE
    /\ requests' = requests \cup {Request(issued + 1, "chat", <<trim(input)>>)}
    /\ issued' = issued + 1
    /\ UNCHANGED <<mapVars, textVars, pageVars>>

\* AIChatBox.tsx:41-57 up to the await; Enter in the input calls it whether
\* or not a reply is awaited (85-90)
handleSend ==
    /\ pc = "mounted" /\ issued < MaxRequests
    /\ trim(input) /= ""
    /\ messages' = Append(messages, [id |-> nextId, role |-> "user",
                                     content |-> trim(input)])
    /\ nextId' = nextId + 1
    /\ input' = ""
    /\ isTyping' = TRUE
    /\ requests' = requests \cup {Request(issued + 1, "chat", <<trim(input)>>)}
    /\ issued' = issued + 1
    /\ UNCHANGED <<mapVars, textVars, pageVars>>

\* AIChatBox.tsx:85-90  Enter in the input, which stays enabled while a
\* reply is awaited (170-176)
handleKeyPress == handleSend

\* AIChatBox.tsx:177-180  the Send button, disabled for an empty input and
\* while a reply is awaited
clickSend ==
    /\ ~(trim(input) = "" \/ isTyping)
    /\ handleSend

\* the network: a pending request is answered or times out
Respond(r, outcome) ==
    /\ r \in requests /\ r.outcome = "pending"
    /\ outcome \in OutcomesOf(r.kind)
    /\ requests' = (requests \ {r}) \cup {[r EXCEPT !.outcome = outcome]}
    /\ UNCHANGED issued
    /\ UNCHANGED <<mapVars, textVars, pageVars, chatVars>>
\* scouting.ts:215: the mapper applied to each body the backend serves,
\* tabulated once, at instant 0
MappedBodies ==
    [t \in Teams, o \in {"ok", "malformed"} |->
        mapApiResponseToScoutingReport(ServedPayload(t, o), t, 0)]

\* scouting.ts:210-215: the awaited value of fetchScoutingReportApi, Absent
\* when axios rejects or the mapper throws; lastUpdated is the instant of
\* the mapping (scouting.ts:196)
fetchedReport(r) ==
    IF Rejected(r) THEN Absent
    ELSE {[rep EXCEPT !.lastUpdated = now] :
             rep \in MappedBodies[r.arg[1], r.outcome]}

\* Index.tsx:33-36  the message of what was thrown
fetchErrorMessage(r) ==
    IF Rejected(r) THEN RejectionMessage(r)
    ELSE "Cannot read properties of null (reading 'strategy_text')"

\* a mutation of fetchResumes: the catch block keeps the report on display
fetchResumes_keepsReport(r) ==
    /\ r \in requests /\ r.kind = "report" /\ r.outcome /= "pending"
    /\ IF fetchedReport(r) /= Absent
       THEN scoutingReport' = fetchedReport(r) /\ UNCHANGED error
       ELSE error' = Some(fetchErrorMessage(r)) /\ UNCHANGED scoutingReport
    /\ isLoading' = FALSE
    /\ requests' = requests \ {r}
    /\ UNCHANGED <<selectedOpponent, draftAnalysis, draftAnalysisLoading, issued>>
    /\ UNCHANGED <<mapVars, textVars, chatVars>>

\* Index.tsx:30-41  fetchScoutingReport from the await on
fetchResumes(r) ==
    /\ r \in requests /\ r.kind = "report" /\ r.outcome /= "pending"
    /\ IF fetchedReport(r) /= Absent
       THEN scoutingReport' = fetchedReport(r) /\ UNCHANGED error
       ELSE error' = Some(fetchErrorMessage(r)) /\ scoutingReport' = Absent
    /\ isLoading' = FALSE
    /\ requests' = requests \ {r}
    /\ UNCHANGED <<selectedOpponent, draftAnalysis, draftAnalysisLoading, issued>>
    /\ UNCHANGED <<mapVars, textVars, chatVars>>

\* Index.tsx:56-62  handleAnalyzeDraft from the await on
analysisResumes(r) ==
    /\ r \in requests /\ r.kind = "draft" /\ r.outcome /= "pending"
    /\ draftAnalysis' = IF Rejected(r) THEN Absent
                        ELSE Some(ServedAnalysis(r.arg))
    /\ draftAnalysisLoading' = FALSE
    /\ requests' = requests \ {r}
    /\ UNCHANGED <<selectedOpponent, scoutingReport, isLoading, error, issued>>
    /\ UNCHANGED <<mapVars, textVars, chatVars>>

\* AIChatBox.tsx:58-60 and 69-76  the content of the assistant's message
replyContent(r) ==
    IF Rejected(r) THEN "Error: " \o RejectionMessage(r)
    ELSE IF ServedChat(r.outcome).error /= Absent
         THEN "Error: " \o Val(ServedChat(r.outcome).error)
         ELSE OrElse(ServedChat(r.outcome).response, "No response from coach AI.")

\* AIChatBox.tsx:57-82  handleSend from the await on
sendResumes(r) ==
    /\ r \in requests /\ r.kind = "chat" /\ r.outcome /= "pending"
    /\ messages' = Append(messages, [id |-> nextId, role |-> "assistant",
                                     content |-> replyContent(r)])
    /\ nextId' = nextId + 1
    /\ isTyping' = FALSE
    /\ requests' = requests \ {r}
    /\ UNCHANGED <<input, issued>>
    /\ UNCHANGED <<mapVars, textVars, pageVars>>

InitApp ==
    /\ TextInitial /\ IndexInitial /\ AIChatBoxInitial /\ NetInitial
    /\ data = EmptyPayload
    /\ teamName = "Team Liquid"
    /\ now = 0
    /\ report = Absent
    /\ threw = FALSE
    /\ confidence = Absent
    /\ pc = "constructed"

\* the steps the user takes
UserActs ==
    \/ \E t \in Teams : handleOpponentSelect(t)
    \/ \E l \in Drafts : handleAnalyzeDraft(l)
    \/ \E t \in ChatInputs : setInput(t)
    \/ handleKeyPress
    \/ clickSend

\* request id is answered, or its handler's continuation runs
Answered(id) ==
    \E r \in requests : r.id = id /\ \E o \in OutcomesOf(r.kind) : Respond(r, o)
Resumed(id) ==
    \E r \in requests :
       r.id = id /\ (fetchResumes(r) \/ analysisResumes(r) \/ sendResumes(r))

NextApp ==
    \/ Mount
    \/ UserActs
    \/ \E id \in 1..MaxRequests : Answered(id)
    \/ \E id \in 1..MaxRequests : Resumed(id)

SpecApp == InitApp /\ [][NextApp]_vars

\* Every request issued is answered or times out (axios' timeout option),
\* and the event loop runs the first effect and every continuation that is
\* ready.  Nothing obliges the user to act.
FairApp ==
    /\ WF_vars(Mount)
    /\ WF_vars(\E id \in 1..MaxRequests : Answered(id))
    /\ WF_vars(\E id \in 1..MaxRequests : Resumed(id))

SpecAppLive == SpecApp /\ FairApp

(***************************************************************************)
(* The estimator run again on a report of more matches: the page replaces  *)
(* its report by one of at least as many matches analyzed                  *)
(* (Index.tsx:31, setScoutingReport) and the render that follows calls     *)
(* getScoutingConfidence on it (Index.tsx:66).                             *)
(***************************************************************************)
Reestimate ==
    /\ pc = "estimated"
    /\ report /= Absent
    /\ \E n \in Coalesce(Val(report).matchesAnalyzed, 0)..MaxMatches :
          report' = Some([Val(report) EXCEPT !.matchesAnalyzed = Some(n)])
    /\ confidence' = getScoutingConfidence(report')
    /\ pc' = "reestimated"
    /\ UNCHANGED <<data, teamName, now, threw>>
    /\ UNCHANGED <<textVars, pageVars, chatVars, netVars>>

NextMore == Estimate \/ Reestimate

SpecMore == InitConf /\ [][NextMore]_vars

(***************************************************************************)
(* The mapped report handed on: the page derives the insight from the      *)
(* report it fetched (Index.tsx:65) and a predefined response is built     *)
(* from the same report (part_006:191).                                    *)
(***************************************************************************)
\* Index.tsx:65  generateHowToWinInsight(scoutingReport)
Advise ==
    /\ pc = "mapped"
    /\ insight' = generateHowToWinInsight(report)
    /\ pc' = "advised"
    /\ UNCHANGED <<data, teamName, now, report, threw, confidence>>
    /\ UNCHANGED <<again, question, intent, response, calls>>
    /\ UNCHANGED <<pageVars, chatVars, netVars>>

\* part_006:191  getPredefinedResponse(intentId, report)
Answer(intentId) ==
    /\ pc = "advised"
    /\ intent' = Some(intentId)
    /\ response' = Some(getPredefinedResponse(intentId, report))
    /\ pc' = "answered"
    /\ UNCHANGED <<data, teamName, now, report, threw, confidence>>
    /\ UNCHANGED <<again, insight, question, calls>>
    /\ UNCHANGED <<pageVars, chatVars, netVars>>

NextAdvise ==
    \/ Map
    \/ Advise
    \/ \E i \in 1..Len(INTENT_IDS) : Answer(INTENT_IDS[i])

SpecAdvise == Init /\ [][NextAdvise]_vars

(***************************************************************************)
(* Properties                                                              *)
(***************************************************************************)
\* the report's sample size as the estimator reads it
SampleSize == Coalesce(Val(report).matchesAnalyzed, 0)
Estimated == pc = "estimated" /\ report /= Absent
ConfidenceIs(score, label) ==
    /\ confidence /= Absent
    /\ Val(confidence).score = score
    /\ Val(confidence).label = label

\* C1: for every report not in limited-data mode with n >= 1 matches the
\* confidence is exactly 1 -> 20/low, 2 -> 40/low, 3 -> 55/medium,
\* 4 -> 70/medium, 5 -> 80/high, 6..9 -> 85/high, n >= 10 -> min(98, 75+n)/high
\* (10 gives 85, 50 gives 98), and the returned matchesAnalyzed is n.
C1_ConfidenceBreakpoints ==
    (Estimated /\ Val(report).limitedDataMode /= Some(TRUE) /\ SampleSize >= 1)
    => LET n == SampleSize
       IN /\ n = 1 => ConfidenceIs(20, "low")
          /\ n = 2 => ConfidenceIs(40, "low")
          /\ n = 3 => ConfidenceIs(55, "medium")
          /\ n = 4 => ConfidenceIs(70, "medium")
          /\ n = 5 => ConfidenceIs(80, "high")
          /\ (6 <= n /\ n <= 9) => ConfidenceIs(85, "high")
          /\ n >= 10 => ConfidenceIs(Min(98, 75 + n), "high")
          /\ n = 10 => ConfidenceIs(85, "high")
          /\ n = 50 => ConfidenceIs(98, "high")
          /\ confidence /= Absent /\ Val(confidence).matchesAnalyzed = n

\* C1 witness: a report of 50 matches, not in limited-data mode, estimated at 98
C1_Witness ==
    /\ Estimated
    /\ Val(report).limitedDataMode = Some(FALSE)
    /\ SampleSize = 50
    /\ ConfidenceIs(98, "high")

\* C2: limitedDataMode true gives 25/low for every matchesAnalyzed, and so
\* does matchesAnalyzed 0 or absent; the limited-data check precedes every
\* sample-size breakpoint.
C2_LimitedDataFirst ==
    (Estimated /\ (\/ Val(report).limitedDataMode = Some(TRUE)
                   \/ Val(report).matchesAnalyzed \in {Absent, Some(0)}))
    => ConfidenceIs(25, "low")

\* C2 witness: a limited-data report of 50 matches estimated at 25/low
C2_Witness ==
    /\ Estimated
    /\ Val(report).limitedDataMode = Some(TRUE)
    /\ SampleSize = 50
    /\ ConfidenceIs(25, "low")

\* the mapper has returned a report
Mapped == pc \in {"mapped", "estimated"} /\ report /= Absent
InRange(x) == 0 <= x /\ x <= 100
\* the payload's arrays as sent, [] for an absent one
RawPlayers ==
    IF data.player_tendencies = Absent
       \/ Val(data.player_tendencies).players = Absent
    THEN <<>> ELSE Val(Val(data.player_tendencies).players)
RawStrategies ==
    IF data.counter_strategies = Absent
       \/ Val(data.counter_strategies).strategies = Absent
    THEN <<>> ELSE Val(Val(data.counter_strategies).strategies)
RawCompositions ==
    IF data.team_compositions = Absent
       \/ Val(data.team_compositions).compositions = Absent
    THEN <<>> ELSE Val(Val(data.team_compositions).compositions)
RawChampions(p) ==
    IF p.most_played_champions = Absent THEN <<>>
    ELSE Val(p.most_played_champions)
RawAvgMinutes ==
    IF data.team_strategy = Absent
       \/ Val(data.team_strategy).average_game_length = Absent
    THEN Absent
    ELSE Val(Val(data.team_strategy).average_game_length).average_minutes
IndexSet(s) == 1..Len(s)

\* C3: for every payload the mapped winRate, every strength's rating and
\* every draft risk's priority lie in [0,100], and so does the confidence
\* score derived from the report.
C3_FieldsWithin0To100 ==
    Mapped =>
      /\ InRange(Val(report).winRate)
      /\ \A i \in IndexSet(Val(report).strengths) :
            InRange(Val(report).strengths[i].rating)
      /\ \A i \in IndexSet(Val(report).draftRisks) :
            InRange(Val(report).draftRisks[i].priority)
      /\ confidence /= Absent => InRange(Val(confidence).score)

\* the payload has no null entry inside an array: every field or sub-object
\* may still be missing
NoNullEntries ==
    /\ \A i \in IndexSet(RawPlayers) :
          /\ RawPlayers[i] /= Absent
          /\ \A j \in IndexSet(RawChampions(Val(RawPlayers[i]))) :
                RawChampions(Val(RawPlayers[i]))[j] /= Absent
    /\ \A i \in IndexSet(RawStrategies) : RawStrategies[i] /= Absent
    /\ \A i \in IndexSet(RawCompositions) : RawCompositions[i] /= Absent

C5_NonEmptyTeamName ==
    Mapped =>
      /\ Val(report).teamName /= ""
      /\ Val(report).teamName =
           (IF data.team /= Absent /\ Val(data.team).name /= Absent
            THEN Val(Val(data.team).name) ELSE teamName)

\* C6: in every mapped report each player's role is one of
\* Top/Jungle/Mid/ADC/Support, each tendency one of
\* aggressive/defensive/balanced, each strength's trend one of up/down/stable,
\* each counter-strategy's effectiveness one of high/medium/low and each
\* draft risk's threat one of ban/pick/flex.
C6_ClosedSets ==
    Mapped =>
      /\ \A i \in IndexSet(Val(report).players) :
            /\ Val(report).players[i].role
                 \in {"Top", "Jungle", "Mid", "ADC", "Support"}
            /\ Val(report).players[i].tendency
                 \in {"aggressive", "defensive", "balanced"}
      /\ \A i \in IndexSet(Val(report).strengths) :
            Val(report).strengths[i].trend \in {"up", "down", "stable"}
      /\ \A i \in IndexSet(Val(report).counterStrategies) :
            Val(report).counterStrategies[i].effectiveness
              \in {"high", "medium", "low"}
      /\ \A i \in IndexSet(Val(report).draftRisks) :
            Val(report).draftRisks[i].threat \in {"ban", "pick", "flex"}

\* C6 witness: a mapped report with six players, the sixth back at Top, and
\* with strengths, counter-strategies and draft risks
C6_Witness ==
    /\ Mapped
    /\ Len(Val(report).players) = 6
    /\ Val(report).players[6].role = "Top"
    /\ Len(Val(report).strengths) >= 2
    /\ Len(Val(report).counterStrategies) >= 1
    /\ Len(Val(report).draftRisks) = 8

RECURSIVE SumOver(_, _)
\* the sum of a field (games or wins, 0 where missing) over the compositions
SumOver(comps, field) ==
    IF comps = <<>> THEN 0
    ELSE (IF Val(Head(comps))[field] = Absent THEN 0
          ELSE Val(Val(Head(comps))[field]))
           + SumOver(Tail(comps), field)
GamesSent == SumOver(RawCompositions, "games")
WinsSent == SumOver(RawCompositions, "wins")
SentMatches ==
    IF data.matches_analyzed = Absent THEN 0 ELSE Val(data.matches_analyzed)
\* some composition entry carries both games and wins
CarriesGamesWins ==
    \E i \in IndexSet(RawCompositions) :
        /\ Val(RawCompositions[i]).games /= Absent
        /\ Val(RawCompositions[i]).wins /= Absent

\* C7 as claimed: without composition data wins = floor(n / 2) and
\* losses = n - wins (wins + losses = n, losses >= 0); when composition
\* entries carry games/wins, wins is the sum of the per-composition wins and
\* losses is total games minus total wins.
C7_RecordAsClaimed ==
    Mapped =>
      LET rec == Val(report).record
          n == SentMatches
      IN /\ RawCompositions = <<>> =>
               /\ rec.wins = n \div 2
               /\ rec.losses = n - rec.wins
               /\ rec.wins + rec.losses = n
               /\ rec.losses >= 0
         /\ CarriesGamesWins =>
               /\ rec.wins = WinsSent
               /\ rec.losses = GamesSent - WinsSent

\* C7 amended: when the summed composition games are 0 (in particular without
\* composition data) wins = floor(n / 2) and losses = n - wins, so
\* wins + losses = n and losses >= 0 (n = 7 gives 3 and 4); when the summed
\* games are > 0, wins is the sum of the per-composition wins and losses is
\* max(0, total games - total wins).
C7_RecordAmended ==
    Mapped =>
      LET rec == Val(report).record
          n == SentMatches
      IN /\ GamesSent = 0 =>
               /\ rec.wins = n \div 2
               /\ rec.losses = n - rec.wins
               /\ rec.wins + rec.losses = n
               /\ rec.losses >= 0
               /\ n = 7 => rec.wins = 3 /\ rec.losses = 4
         /\ GamesSent > 0 =>
               /\ rec.wins = WinsSent
               /\ rec.losses = Max(0, GamesSent - WinsSent)
         /\ rec.losses >= 0

\* C7 witness: 7 matches and no composition data mapped to 3 wins, 4 losses
C7_Witness ==
    /\ Mapped
    /\ RawCompositions = <<>>
    /\ SentMatches = 7
    /\ Val(report).record = [wins |-> 3, losses |-> 4]

\* the integer nearest to p / q (q > 0), halves upward: the r with
\* r - 1/2 <= p/q < r + 1/2
IsNearest(r, p, q) == (2 * r - 1) * q <= 2 * p /\ 2 * p < (2 * r + 1) * q

\* C8 as claimed: winRate is round(100 * totalWins / totalGames) when the
\* summed games are > 0; otherwise, with at least one composition, it is that
\* composition's win_rate field; otherwise 50.
C8_WinRateAsClaimed ==
    Mapped =>
      LET w == Val(report).winRate
      IN /\ GamesSent > 0 => IsNearest(w, 100 * WinsSent, GamesSent)
         /\ (GamesSent = 0 /\ RawCompositions /= <<>>) =>
               /\ Val(RawCompositions[1]).win_rate /= Absent
               /\ Fix(w) = Val(Val(RawCompositions[1]).win_rate)
         /\ RawCompositions = <<>> => w = 50

\* C8 amended: winRate is round(100 * totalWins / totalGames) when the summed
\* games are > 0; otherwise, with at least one composition, it is the first
\* composition's win_rate rounded to the nearest integer, or 50 when that
\* entry has no win_rate; otherwise 50.
C8_WinRateAmended ==
    Mapped =>
      LET w == Val(report).winRate
      IN /\ GamesSent > 0 => IsNearest(w, 100 * WinsSent, GamesSent)
         /\ (GamesSent = 0 /\ RawCompositions /= <<>>) =>
               LET r == Val(RawCompositions[1]).win_rate
               IN IF r = Absent THEN w = 50 ELSE IsNearest(w, Val(r), Scale)
         /\ RawCompositions = <<>> => w = 50

\* C8 witness: 1 win in 3 games mapped to 33, and reports taking the first
\* composition's win_rate exist as well
C8_Witness ==
    /\ Mapped
    /\ GamesSent = 3
    /\ WinsSent = 1
    /\ Val(report).winRate = 33

\* two digits of a number below 100
TwoDigits(s) == IF s < 10 THEN "0" \o ToString(s) ELSE ToString(s)

\* C9: avgGameTime is the whole minutes, a colon and the remaining fraction
\* in seconds, rounded to the nearest integer and zero-padded to two digits
\* (32.25 -> "32:15"); absent or NaN average_minutes gives the placeholder.
C9_GameTimeFormat ==
    Mapped =>
      IF RawAvgMinutes = Absent \/ Val(RawAvgMinutes).nan
      THEN Val(report).avgGameTime = EmDash
      ELSE LET x == Val(RawAvgMinutes).v
               whole == CHOOSE m \in 0..x : m * Scale <= x /\ x < (m + 1) * Scale
               sec == CHOOSE s \in 0..60 : IsNearest(s, (x - whole * Scale) * 60, Scale)
           IN /\ Val(report).avgGameTime = ToString(whole) \o ":" \o TwoDigits(sec)
              /\ x = 32 * Scale + Scale \div 4 => Val(report).avgGameTime = "32:15"

\* C9 witness: 32.25 minutes mapped to "32:15"
C9_Witness ==
    /\ Mapped
    /\ RawAvgMinutes = Some(Num(32 * Scale + Scale \div 4))
    /\ Val(report).avgGameTime = "32:15"

\* C10: every emitted draft risk has threat "pick" and priority
\* min(95, 50 + games * 10) for the games of its champion, one of the first
\* two of some player; no priority exceeds 95 and 10 games give 95.
C10_DraftRiskPriority ==
    Mapped =>
      \A i \in IndexSet(Val(report).draftRisks) :
         LET r == Val(report).draftRisks[i]
         IN /\ r.threat = "pick"
            /\ r.priority <= 95
            /\ \E k \in IndexSet(RawPlayers) :
                 \E j \in 1..Min(2, Len(RawChampions(Val(RawPlayers[k])))) :
                    LET c == Val(RawChampions(Val(RawPlayers[k]))[j])
                    IN /\ r.champion = c.champion
                       /\ r.priority =
                            (IF 50 + c.games * 10 < 95
                             THEN 50 + c.games * 10 ELSE 95)
                       /\ c.games = 10 => r.priority = 95

\* C10 witness: a champion with 10 games mapped to a draft risk of priority 95
C10_Witness ==
    /\ Mapped
    /\ Len(RawPlayers) = 1
    /\ RawChampions(Val(RawPlayers[1])) = <<Champion("Azir", 10)>>
    /\ Len(Val(report).draftRisks) = 1
    /\ Val(report).draftRisks[1].priority = 95
    /\ Val(report).draftRisks[1].threat = "pick"

\* the (player, champion) positions the mapper reads: the first two
\* champions of every player sent
GeneratedPairs ==
    {ij \in IndexSet(RawPlayers) \X (1..2) :
        ij[2] <= Len(RawChampions(Val(RawPlayers[ij[1]])))}
GeneratedEntry(ij) ==
    draftRiskOf(Val(RawPlayers[ij[1]]), ij[1] - 1,
                Val(RawChampions(Val(RawPlayers[ij[1]]))[ij[2]]))
\* how often an entry is generated, and how often a list holds it
GeneratedCount(r) == Cardinality({ij \in GeneratedPairs : GeneratedEntry(ij) = r})
KeptCount(r, list) == Cardinality({k \in IndexSet(list) : list[k] = r})

\* C11: the mapped draftRisks hold only entries generated from the first two
\* champions of a player, in non-increasing priority order, exactly
\* min(8, number generated) of them, and every generated entry left out has
\* a priority no greater than that of every entry kept.
C11_DraftRisksTop8 ==
    Mapped =>
      LET kept == Val(report).draftRisks
      IN /\ Len(kept) = (IF Cardinality(GeneratedPairs) < 8
                         THEN Cardinality(GeneratedPairs) ELSE 8)
         /\ \A k \in 1..(Len(kept) - 1) : kept[k].priority >= kept[k + 1].priority
         /\ \A k \in IndexSet(kept) :
               KeptCount(kept[k], kept) <= GeneratedCount(kept[k])
         /\ \A ij \in GeneratedPairs :
               GeneratedCount(GeneratedEntry(ij)) > KeptCount(GeneratedEntry(ij), kept)
                  => \A k \in IndexSet(kept) :
                        GeneratedEntry(ij).priority <= kept[k].priority

\* C11 witness: six players send twelve entries, eight are kept, an entry
\* of the first player is left out although it was generated first, and the
\* third champion of a player, with the most games, is not among the risks
C11_Witness ==
    /\ Mapped
    /\ Cardinality(GeneratedPairs) = 12
    /\ Len(Val(report).draftRisks) = 8
    /\ Val(report).draftRisks[1].priority > Val(report).draftRisks[8].priority
    /\ KeptCount(GeneratedEntry(<<1, 1>>), Val(report).draftRisks) = 0
    /\ \A k \in 1..8 : Val(report).draftRisks[k].champion /= "C1c"

\* the insight of the report has been generated
Summarised == pc = "serving" /\ report /= Absent /\ insight /= Absent
\* the description or, for an empty description, the title of a strategy
StrategyTexts(rep) ==
    {IF rep.counterStrategies[i].description /= ""
     THEN rep.counterStrategies[i].description
     ELSE rep.counterStrategies[i].title : i \in IndexSet(rep.counterStrategies)}
StartsWith(s, prefix) ==
    Len(s) >= Len(prefix) /\ SubSeq(s, 1, Len(prefix)) = prefix
\* a bullet the generator writes itself: the weakness, the ban, the pick
IsAdvice(b) ==
    \/ StartsWith(b, "Exploit ")
    \/ StartsWith(b, "Priority ban: ")
    \/ StartsWith(b, "Contest or deny: ")

\* C12: the bullets are at most 3 counter-strategy texts, exactly 3 for a
\* report with 5 strategies (min(3, n) for n strategies), followed by at
\* most three bullets of advice, and never more than 6 in all.
C12_BulletCap ==
    Summarised =>
      LET rep == Val(report)
          bullets == Val(insight).bullets
          used == IF Len(rep.counterStrategies) < 3
                  THEN Len(rep.counterStrategies) ELSE 3
      IN /\ Len(bullets) <= 6
         /\ Len(bullets) >= used
         /\ \A i \in 1..used : bullets[i] \in StrategyTexts(rep)
         /\ \A i \in (used + 1)..Len(bullets) : IsAdvice(bullets[i])

\* C12 witness: a report with 5 strategies, strengths, a ban and a pick has
\* exactly 6 bullets, the first 3 of them strategies
C12_Witness ==
    /\ Summarised
    /\ Len(Val(report).counterStrategies) = 5
    /\ Len(Val(insight).bullets) = 6
    /\ ~IsAdvice(Val(insight).bullets[3])
    /\ IsAdvice(Val(insight).bullets[4])
    /\ StartsWith(Val(insight).bullets[6], "Contest or deny: ")

Asked == pc = "asked"

RECURSIVE WordsFrom(_, _)
\* the words of a string, its maximal runs of characters that are not
\* whitespace; cur is the word being read
WordsFrom(s, cur) ==
    IF s = "" THEN (IF cur = "" THEN <<>> ELSE <<cur>>)
    ELSE IF CharAt(s, 1) \in {" ", "\t", "\n"}
         THEN (IF cur = "" THEN <<>> ELSE <<cur>>) \o WordsFrom(Rest(s), "")
         ELSE WordsFrom(Rest(s), cur \o CharAt(s, 1))
\* a question lower-cased, trimmed, its words one space apart
Canonical(q) ==
    LET words == WordsFrom(q, "")
    IN Join([i \in 1..Len(words) |-> toLowerCase(words[i])], " ")

\* C13: the intent of a question is the intent of the question lower-cased,
\* trimmed and with each run of whitespace collapsed to one space, and
\* "  Best BAN   strategy" yields best_ban_strategy.
C13_CaseAndWhitespaceInsensitive ==
    Asked =>
      /\ intent = matchIntent(Canonical(question))
      /\ question = "  Best BAN   strategy" => intent = Some("best_ban_strategy")

\* C13 witness: "  Best BAN   strategy" has been matched
C13_Witness ==
    /\ Asked
    /\ question = "  Best BAN   strategy"
    /\ Canonical(question) = "best ban strategy"
    /\ intent = Some("best_ban_strategy")

\* keyword k occurs in s
OccursIn(k, s) == \E i \in 1..(Len(s) - Len(k) + 1) : SubSeq(s, i, i + Len(k) - 1) = k
\* the positions in the table of the intents one of whose keywords occurs
\* in the normalized question
Hits(q) ==
    {i \in 1..Len(INTENT_MATCHES) :
        \E k \in 1..Len(INTENT_MATCHES[i].keywords) :
           OccursIn(INTENT_MATCHES[i].keywords[k], Canonical(q))}
TableOrder ==
    <<"best_ban_strategy", "counter_comp", "win_conditions",
      "early_game_plan", "weak_player_targeting">>

\* C14: matchIntent returns the earliest intent, in the order
\* best_ban_strategy, counter_comp, win_conditions, early_game_plan,
\* weak_player_targeting, one of whose keywords is a substring of the
\* normalized question, and null when there is none or the normalized
\* question is empty.
C14_FirstIntentInTableOrder ==
    Asked =>
      /\ \A i \in 1..Len(INTENT_MATCHES) : INTENT_MATCHES[i].intentId = TableOrder[i]
      /\ IF Canonical(question) = "" \/ Hits(question) = {}
         THEN intent = Absent
         ELSE \E i \in Hits(question) :
                 /\ \A j \in Hits(question) : i <= j
                 /\ intent = Some(TableOrder[i])

\* C14 witness: "early game bans" holds a keyword of early_game_plan and,
\* behind it, one of best_ban_strategy; the earlier intent of the table wins
C14_Witness ==
    /\ Asked
    /\ question = "early game bans"
    /\ Hits(question) = {1, 4}
    /\ intent = Some("best_ban_strategy")

\* a predefined response has been returned for the intent held in intent
Responded == pc = "serving" /\ response /= Absent /\ intent /= Absent
\* the intent's name with its underscores replaced by spaces
SpacedName(id) ==
    CASE id = "best_ban_strategy" -> "best ban strategy"
      [] id = "counter_comp" -> "counter comp"
      [] id = "win_conditions" -> "win conditions"
      [] id = "early_game_plan" -> "early game plan"
      [] id = "weak_player_targeting" -> "weak player targeting"
Has(list, Test(_)) == \E i \in IndexSet(list) : Test(list[i])
\* the report holds nothing of what the intent reads
NeededDataEmpty(id, rep) ==
    LET ban(r) == r.threat = "ban"
        pick(r) == r.threat \in {"pick", "flex"}
        strong(s) == s.effectiveness \in {"high", "medium"}
        high(s) == s.effectiveness = "high"
        early(s) == s.phase = "early"
        earlyArea(s) == OccursIn("early", toLowerCase(s.area))
    IN CASE id = "best_ban_strategy" -> ~Has(rep.draftRisks, ban)
         [] id = "counter_comp" -> ~Has(rep.counterStrategies, strong)
         [] id = "win_conditions" ->
               /\ ~Has(rep.counterStrategies, high)
               /\ rep.strengths = <<>>
               /\ ~Has(rep.draftRisks, ban)
         [] id = "early_game_plan" ->
               /\ ~Has(rep.counterStrategies, early)
               /\ ~Has(rep.draftRisks, pick)
               /\ ~Has(rep.strengths, earlyArea)
         [] id = "weak_player_targeting" -> rep.players = <<>>
\* the placeholder of each intent
Placeholder(id, team) ==
    CASE id = "best_ban_strategy" ->
           "No priority bans identified for " \o team \o " in the current report. Check draft risks after loading more data."
      [] id = "counter_comp" ->
           "No counter-comp strategies generated yet for " \o team \o ". Ensure scouting report has been generated."
      [] id = "win_conditions" ->
           "Win conditions for " \o team \o " will appear here once counter strategies and strengths are available."
      [] id = "early_game_plan" ->
           "Early game plan for " \o team \o ": generate a scouting report to see early-phase strategies and draft priorities."
      [] id = "weak_player_targeting" ->
           "No player-level data for " \o team \o " in this report. Load more matches to see weak-player targeting."

Settles(r) == r \in requests /\ r.outcome /= "pending" /\ r \notin requests'
\* axios rejected the request, or the mapper threw on its response
Failed(r) == r.outcome \in {"error", "timeout", "malformed"}

\* C17: the step in which a failed report fetch (HTTP error, timeout, or a
\* body the mapper throws on) is handled leaves scoutingReport null, error
\* set and isLoading false, and the step in which a failed draft analysis is
\* handled leaves draftAnalysis null and draftAnalysisLoading false,
\* whatever was displayed before.
C17_FailureClears ==
    [][\A r \in requests :
          (Settles(r) /\ Failed(r)) =>
             /\ r.kind = "report" =>
                   /\ scoutingReport' = Absent
                   /\ error' /= Absent
                   /\ isLoading' = FALSE
             /\ r.kind = "draft" =>
                   /\ draftAnalysis' = Absent
                   /\ draftAnalysisLoading' = FALSE]_vars

\* C17 witness: all three requests are spent, two report fetches among
\* them, and the page shows an error and no report and is not loading,
\* while an analysis that had succeeded is still on display
C17_Witness ==
    /\ issued = 3 /\ requests = {}
    /\ selectedOpponent = "Cloud9"
    /\ scoutingReport = Absent
    /\ error = Some("timeout of 30000ms exceeded")
    /\ isLoading = FALSE
    /\ draftAnalysis /= Absent
Outstanding(id) == \E r \in requests : r.id = id
\* an error is on display for a failure of a request of this kind: the
\* page's error message (Index.tsx:184-188, the only error the page or its
\* panels hold) or an "Error: " message of the assistant
ErrorSurfaced(kind) ==
    IF kind = "chat"
    THEN StartsWith(messages[Len(messages)].content, "Error: ")
    ELSE error /= Absent

\* C18, the part about hanging: every request outstanding is eventually
\* settled, and with no request outstanding isLoading, draftAnalysisLoading
\* and isTyping are all false.
C18_EveryRequestSettles ==
    /\ \A id \in 1..MaxRequests : Outstanding(id) ~> ~Outstanding(id)
    /\ [](requests = {} => ~isLoading /\ ~draftAnalysisLoading /\ ~isTyping)

\* C18: no operation hangs: every started report fetch, draft analysis and
\* chat send eventually completes, a rejected one with an error surfaced,
\* and once no request is outstanding isLoading, draftAnalysisLoading and
\* isTyping are all false.
C18_NoOperationHangs ==
    /\ C18_EveryRequestSettles
    /\ [][\A r \in requests :
             (Settles(r) /\ Rejected(r)) => ErrorSurfaced(r.kind)']_vars
\* C19: a change of opponent leaves every request in flight in flight and
\* adds one, and the continuation of every report fetch writes its own
\* outcome to the page, its report under the team it was fetched for or
\* its failure, whichever opponent is selected by then.
C19_LastWriteWins ==
    [][/\ selectedOpponent' /= selectedOpponent =>
             /\ requests \subseteq requests'
             /\ Cardinality(requests') = Cardinality(requests) + 1
       /\ \A r \in requests :
             (Settles(r) /\ r.kind = "report") =>
                \/ scoutingReport' = Absent /\ error' /= Absent
                \/ /\ scoutingReport' /= Absent
                   /\ Val(scoutingReport').teamName = r.arg[1]]_vars

\* C19 witness: the opponent was changed from Team Liquid to Cloud9 while
\* the first fetch was in flight, both fetches have been handled, and the
\* page holds Team Liquid's report while Cloud9 is selected
C19_Witness ==
    /\ selectedOpponent = "Cloud9"
    /\ issued = 2 /\ requests = {}
    /\ scoutingReport /= Absent
    /\ Val(scoutingReport).teamName = "Team Liquid"
    /\ isLoading = FALSE

Unflagged(rep) == rep /= Absent /\ Val(rep).limitedDataMode /= Some(TRUE)

\* C21, for samples of at least one match: between two reports not flagged
\* as limited data with 1 <= m <= n matches analyzed, the score for m is at
\* most the score for n.
C21_MonotoneFromOne ==
    [][(pc = "estimated" /\ pc' = "reestimated" /\ Unflagged(report)
          /\ SampleSize >= 1)
       => Val(confidence).score <= Val(confidence').score]_vars

\* C21: more matches never lowers confidence: between two reports not in
\* limited-data mode with 0 <= m <= n matches analyzed, the score returned
\* for m is less than or equal to the score returned for n.
C21_MoreMatchesNeverLowers ==
    [][(pc = "estimated" /\ pc' = "reestimated" /\ Unflagged(report))
       => Val(confidence).score <= Val(confidence').score]_vars

\* e1 comes before e2 in the order high, medium, low
Outranks(e1, e2) ==
    <<e1, e2>> \in {<<"high", "medium">>, <<"high", "low">>, <<"medium", "low">>}
\* strategy a of the list goes before strategy j: higher effectiveness, or
\* the same and earlier in the list
GoesBefore(list, a, j) ==
    \/ Outranks(list[a].effectiveness, list[j].effectiveness)
    \/ list[a].effectiveness = list[j].effectiveness /\ a < j
\* the text a strategy contributes
BulletOf(s) == IF s.description /= "" THEN s.description ELSE s.title

\* C22: the first bullets of the insight are the first min(3, count)
\* counter-strategies of the report in a stable order by effectiveness
\* descending: bullet i is the text (the description when non-empty, else
\* the title) of a strategy that goes before every strategy not chosen for
\* bullets 1..i.
C22_TopStrategiesStable ==
    Summarised =>
       LET list == Val(report).counterStrategies
           bullets == Val(insight).bullets
           k == Min(3, Len(list))
       IN /\ Len(bullets) >= k
          /\ \E p \in [1..k -> 1..Len(list)] :
                \A i \in 1..k :
                   /\ bullets[i] = BulletOf(list[p[i]])
                   /\ \A j \in 1..Len(list) \ {p[h] : h \in 1..i} :
                         GoesBefore(list, p[i], j)

\* C22 witness: of the strategies low, high (no description), high the
\* bullets are the second's title, the third's description and the
\* first's description
C22_Witness ==
    /\ Summarised
    /\ Len(Val(report).counterStrategies) = 3
    /\ [i \in 1..3 |-> Val(report).counterStrategies[i].effectiveness]
          = <<"low", "high", "high">>
    /\ SubSeq(Val(insight).bullets, 1, 3) = <<"Title 2", "Plan 3", "Plan 1">>

\* the bullets of the insight that start with prefix
BulletsStarting(prefix) ==
    {Val(insight).bullets[i] : i \in {j \in 1..Len(Val(insight).bullets) :
                                        StartsWith(Val(insight).bullets[j], prefix)}}
\* the positions in the report's draft risks of the risks of these threats
RisksOf(threats) ==
    {i \in 1..Len(Val(report).draftRisks) : Val(report).draftRisks[i].threat \in threats}
\* the risk of highest priority among those at the positions, the earliest
\* of equal priorities
TopRisk(positions) ==
    Val(report).draftRisks[
        CHOOSE i \in positions :
           \A j \in positions :
              \/ Val(report).draftRisks[j].priority < Val(report).draftRisks[i].priority
              \/ /\ Val(report).draftRisks[j].priority = Val(report).draftRisks[i].priority
                 /\ i <= j]
\* the first strength of minimum rating
FirstWeakest ==
    Val(report).strengths[
        CHOOSE i \in 1..Len(Val(report).strengths) :
           \A j \in 1..Len(Val(report).strengths) :
              \/ Val(report).strengths[j].rating > Val(report).strengths[i].rating
              \/ /\ Val(report).strengths[j].rating = Val(report).strengths[i].rating
                 /\ i <= j]

\* C23: the insight has a "Priority ban" bullet exactly when the report has
\* a ban-type draft risk, naming the ban of highest priority (the earliest
\* among equal priorities); a "Contest or deny" bullet exactly when it has
\* a pick- or flex-type risk, naming the one of highest priority (earliest
\* among ties); and the weakest-strength bullet names the first strength
\* of minimum rating.
C23_AdviceBullets ==
    Summarised =>
       /\ BulletsStarting("Priority ban: ") =
             IF RisksOf({"ban"}) = {} THEN {}
             ELSE {"Priority ban: " \o TopRisk(RisksOf({"ban"})).champion \o " ("
                     \o TopRisk(RisksOf({"ban"})).notes \o ")."}
       /\ BulletsStarting("Contest or deny: ") =
             IF RisksOf({"pick", "flex"}) = {} THEN {}
             ELSE {"Contest or deny: " \o TopRisk(RisksOf({"pick", "flex"})).champion
                     \o EmDash \o TopRisk(RisksOf({"pick", "flex"})).notes}
       /\ BulletsStarting("Exploit ") =
             IF Val(report).strengths = <<>> THEN {}
             ELSE {"Exploit " \o Val(report).teamName \o "'s weaker "
                     \o FirstWeakest.area \o " (" \o ToString(FirstWeakest.rating)
                     \o "/100)" \o EmDash \o "look for plays in that phase."}

\* C23 witness: strengths with two ratings of 65, the minimum, give the
\* bullet of the first of them, "Team Fighting"
C23_Witness ==
    /\ Summarised
    /\ Len(Val(report).strengths) = 3
    /\ Val(report).strengths[1].rating = 65 /\ Val(report).strengths[2].rating = 65
    /\ \E i \in 1..Len(Val(insight).bullets) :
          Val(insight).bullets[i] =
             "Exploit Cloud9's weaker Team Fighting (65/100)--look for plays in that phase."
    /\ BulletsStarting("Priority ban: ") /= {}
    /\ BulletsStarting("Contest or deny: ") /= {}

\* the early_game_plan response to a report is at hand
EarlyPlanned ==
    Responded /\ report /= Absent /\ Val(intent) = "early_game_plan"
\* the response names, after "Contest early: ", the champions of the risks
\* at the positions T, in some order
NamesRisksAt(T) ==
    \E order \in [1..Cardinality(T) -> T] :
       /\ \A a, b \in 1..Cardinality(T) : a /= b => order[a] /= order[b]
       /\ includes(Val(response),
             "Contest early: "
                \o Join([k \in 1..Cardinality(T) |->
                            Val(report).draftRisks[order[k]].champion], ", ")
                \o EmDash)
\* T holds min(3, count) of the positions, none of lower priority than a
\* position left out
TopThreeOf(positions, T) ==
    /\ T \subseteq positions
    /\ Cardinality(T) = Min(3, Cardinality(positions))
    /\ \A i \in T, j \in positions \ T :
          Val(report).draftRisks[j].priority <= Val(report).draftRisks[i].priority
\* the pick/flex risks of the report stand in descending priority order
PicksInPriorityOrder ==
    \A i, j \in RisksOf({"pick", "flex"}) :
       i < j => Val(report).draftRisks[i].priority >= Val(report).draftRisks[j].priority

\* C24, for reports whose pick/flex risks are in descending priority order
\* (every mapped report): the champions named in the "Contest early" part
\* are the up-to-three pick/flex risks of highest priority.
C24_TopThreeWhenSorted ==
    (EarlyPlanned /\ PicksInPriorityOrder) =>
       IF RisksOf({"pick", "flex"}) = {}
       THEN ~includes(Val(response), "Contest early: ")
       ELSE \E T \in SUBSET RisksOf({"pick", "flex"}) :
               TopThreeOf(RisksOf({"pick", "flex"}), T) /\ NamesRisksAt(T)

\* C24: for every report, draft risks not sorted by priority included, the
\* champions named in the "Contest early" part of the early_game_plan
\* response are the up-to-three pick/flex draft risks of highest priority.
C24_ContestEarlyTopThree ==
    EarlyPlanned =>
       IF RisksOf({"pick", "flex"}) = {}
       THEN ~includes(Val(response), "Contest early: ")
       ELSE \E T \in SUBSET RisksOf({"pick", "flex"}) :
               TopThreeOf(RisksOf({"pick", "flex"}), T) /\ NamesRisksAt(T)

\* the mapper was given a number of minutes that is not negative
MinutesGiven ==
    /\ Mapped
    /\ RawAvgMinutes /= Absent
    /\ ~Val(RawAvgMinutes).nan
    /\ Val(RawAvgMinutes).v >= 0
\* the time ends in a colon and one of the two-digit numbers lo..hi
EndsInSeconds(time, lo, hi) ==
    /\ Len(time) >= 4
    /\ SubSeq(time, Len(time) - 2, Len(time) - 2) = ":"
    /\ SubSeq(time, Len(time) - 1, Len(time)) \in {TwoDigits(s) : s \in lo..hi}

\* C25, as far as it holds: the seconds part of avgGameTime is between 00
\* and 60.
C25_SecondsUpTo60 == MinutesGiven => EndsInSeconds(Val(report).avgGameTime, 0, 60)

\* C25: for every non-negative average_minutes the seconds part of the
\* formatted avgGameTime is between 00 and 59; rounding the fractional
\* minute never produces "M:60".
C25_SecondsBelow60 == MinutesGiven => EndsInSeconds(Val(report).avgGameTime, 0, 59)

\* a report fetch is outstanding: issued and its continuation has not run
FetchOutstanding == \E r \in requests : r.kind = "report"

\* C26, what holds instead: the continuation of every report fetch leaves
\* isLoading false, whatever else is outstanding, and isLoading is false
\* when no fetch is outstanding.
C26_AnyCompletionClearsLoading ==
    /\ [][\A r \in requests :
             (Settles(r) /\ r.kind = "report") => ~isLoading']_vars
    /\ [](~FetchOutstanding => ~isLoading)

\* C26: in every reachable state of the dashboard isLoading is true
\* whenever at least one report fetch is still outstanding.
C26_LoadingWhileFetching == FetchOutstanding => isLoading

\* the numbers of the chat requests outstanding
ChatOutstanding == {r.id : r \in {q \in requests : q.kind = "chat"}}
\* the user messages of the transcript
UserMessages(transcript) ==
    {i \in 1..Len(transcript) : transcript[i].role = "user"}

\* C27, for the Send button alone: a click on it starts nothing while
\* isTyping is true.
C27_ButtonSendsOnlyWhenIdle == [][clickSend => ~isTyping]_vars

\* C27: at most one chat request is outstanding at any time: while isTyping
\* is true no step starts another sendCoachChat call or appends another
\* user message.
C27_OneChatRequest ==
    /\ [](Cardinality(ChatOutstanding) <= 1)
    /\ [][isTyping =>
             /\ ChatOutstanding' \subseteq ChatOutstanding
             /\ Cardinality(UserMessages(messages'))
                   = Cardinality(UserMessages(messages))]_vars

\* the chat request of this number
ChatRequest(id, reqs) == CHOOSE r \in reqs : r.id = id /\ r.kind = "chat"
\* after is before with one message appended
Appended(before, after) ==
    Len(after) = Len(before) + 1 /\ SubSeq(after, 1, Len(before)) = before

\* C28: every message of the transcript has a distinct id, ids increase
\* strictly in transcript order from the greeting's id 1, and each question
\* sent contributes exactly one user message, when it is sent, and exactly
\* one assistant message, its response or an "Error: ..." message, when its
\* request settles; nothing else changes the transcript.
C28_TranscriptIds ==
    /\ [](/\ messages[1].id = 1 /\ messages[1].content = Greeting
          /\ \A i, j \in 1..Len(messages) :
                i < j => messages[i].id < messages[j].id)
    /\ [][LET sent == ChatOutstanding' \ ChatOutstanding
              settled == ChatOutstanding \ ChatOutstanding'
              last == messages'[Len(messages')]
          IN IF sent /= {}
             THEN /\ Cardinality(sent) = 1 /\ settled = {}
                  /\ Appended(messages, messages')
                  /\ last.role = "user"
                  /\ \A id \in sent :
                        <<last.content>> = ChatRequest(id, requests').arg
             ELSE IF settled /= {}
             THEN /\ Cardinality(settled) = 1
                  /\ Appended(messages, messages')
                  /\ last.role = "assistant"
                  /\ \A id \in settled :
                        Rejected(ChatRequest(id, requests))
                           => StartsWith(last.content, "Error: ")
             ELSE messages' = messages]_vars

\* C28 witness: two questions were sent one upon the other, one answered
\* and one rejected; the transcript holds the greeting, the two questions
\* and the two replies with the ids 1 to 5
C28_Witness ==
    /\ requests = {} /\ ~isTyping
    /\ Len(messages) = 5
    /\ [i \in 1..5 |-> messages[i].id] = <<1, 2, 3, 4, 5>>
    /\ [i \in 1..5 |-> messages[i].role]
          = <<"assistant", "user", "user", "assistant", "assistant">>
    /\ messages[4].content = "Ban Zeri."
    /\ StartsWith(messages[5].content, "Error: timeout of 60000ms")

\* C29: no draft risk of a mapped report has threat "ban"; the insight
\* generated from a mapped report has no "Priority ban" bullet and the
\* best_ban_strategy response to it is the "No priority bans identified"
\* placeholder, whatever the payload.
C29_MappedReportsHaveNoBans ==
    (pc \in {"mapped", "advised", "answered"} /\ report /= Absent) =>
       /\ \A i \in IndexSet(Val(report).draftRisks) :
             Val(report).draftRisks[i].threat /= "ban"
       /\ pc \in {"advised", "answered"} =>
             /\ insight /= Absent
             /\ \A i \in IndexSet(Val(insight).bullets) :
                   ~StartsWith(Val(insight).bullets[i], "Priority ban")
       /\ (pc = "answered" /\ intent = Some("best_ban_strategy")) =>
             response = Some("No priority bans identified for "
                               \o Val(report).teamName
                               \o " in the current report. Check draft risks "
                               \o "after loading more data.")

\* C29 witness: a report mapped from a roster with champions of ten games
\* (priority 95), its insight contesting a pick and its ban response the
\* placeholder
C29_Witness ==
    /\ pc = "answered" /\ report /= Absent
    /\ intent = Some("best_ban_strategy")
    /\ Len(Val(report).draftRisks) >= 2
    /\ Val(report).draftRisks[1].priority = 95
    /\ \E i \in IndexSet(Val(insight).bullets) :
          StartsWith(Val(insight).bullets[i], "Contest or deny: ")
    /\ StartsWith(Val(response), "No priority bans identified for ")

\* the notes of a draft risk of a champion with these games under this name
NotesNaming(name, games) ==
    name \o " " \o EnDash \o " " \o ToString(games) \o " games"
\* the champion a generated pair stands for, and the record it is read from
PairChampion(ij) == Val(RawChampions(Val(RawPlayers[ij[1]]))[ij[2]])
PairRecord(ij) == Val(RawPlayers[ij[1]])

\* C30, as far as it holds: every draft risk carries the role of the
\* players[] entry of the record it was generated from, and in its notes
\* that entry's name when the record has a player_name, "Player" otherwise.
C30_RoleAndGivenName ==
    Mapped =>
      \A k \in IndexSet(Val(report).draftRisks) :
         \E ij \in GeneratedPairs :
            LET r == Val(report).draftRisks[k]
                player == Val(report).players[ij[1]]
            IN /\ r.champion = PairChampion(ij).champion
               /\ r.role = player.role
               /\ r.notes =
                     NotesNaming(IF PairRecord(ij).player_name /= Absent
                                 THEN player.name ELSE "Player",
                                 PairChampion(ij).games)

\* C30: for every player record of the payload, the name in the notes of
\* each draft risk generated from it is the name of the corresponding
\* players[] entry and the risk's role is that player's role, also when
\* player_name is absent and only player_id is present.
C30_NotesNameThePlayer ==
    Mapped =>
      \A k \in IndexSet(Val(report).draftRisks) :
         \E ij \in GeneratedPairs :
            LET r == Val(report).draftRisks[k]
                player == Val(report).players[ij[1]]
            IN /\ r.champion = PairChampion(ij).champion
               /\ r.role = player.role
               /\ r.notes = NotesNaming(player.name, PairChampion(ij).games)

====
